---------------------------- MODULE Spec2Model ----------------------------
(***************************************************************************)
(* Learn Buddy: the text utilities (tokenizer, validation, readability,    *)
(* vocabulary simplification) and the TextToSpeech component's playback /  *)
(* highlighting state machine.                                             *)
(*                                                                         *)
(* A JavaScript string is a sequence of one-character strings.  Offsets    *)
(* are 0-based as in the source; Slice(s, a, b) is s.slice(a, b).          *)
(* Characters outside ASCII are written by their code point ("u2014").     *)
(***************************************************************************)
EXTENDS Integers, Sequences, FiniteSets, TLC

(***************************************************************************)
(* Character classes of the regular expressions in the source.             *)
(***************************************************************************)
LowerLetters ==
  {"a","b","c","d","e","f","g","h","i","j","k","l","m",
   "n","o","p","q","r","s","t","u","v","w","x","y","z"}

UpperLetters ==
  {"A","B","C","D","E","F","G","H","I","J","K","L","M",
   "N","O","P","Q","R","S","T","U","V","W","X","Y","Z"}

Digits == {"0","1","2","3","4","5","6","7","8","9"}

\* \w of a JavaScript regular expression: [A-Za-z0-9_]
RegexWordChars == LowerLetters \cup UpperLetters \cup Digits \cup {"_"}

\* \s and String.prototype.trim: the white space of the inputs used here
WhiteSpace == {" ", "\t", "\n"}

\* TEXT_PATTERNS.WORD, first alternative: [\w']
WordChars == RegexWordChars \cup {"'"}

\* TEXT_PATTERNS.WORD, second alternative: [.!?;,u2014u2013-]
PunctChars == {".", "!", "?", ";", ",", "u2014", "u2013", "-"}

\* [.!?] of TEXT_PATTERNS.SENTENCE and of the split patterns
TerminatorChars == {".", "!", "?"}

(***************************************************************************)
(* String helpers.                                                         *)
(***************************************************************************)
Min(a, b) == IF a < b THEN a ELSE b

Max(a, b) == IF a > b THEN a ELSE b

\* s.slice(a, b) for 0 <= a, b
Slice(s, a, b) == SubSeq(s, a + 1, Min(b, Len(s)))

\* s.trim() === ''
IsBlank(s) == \A i \in 1..Len(s) : s[i] \in WhiteSpace

\* s.trim()
Trim(s) ==
  IF IsBlank(s) THEN <<>>
  ELSE LET first == CHOOSE i \in 1..Len(s) :
                      /\ s[i] \notin WhiteSpace
                      /\ \A j \in 1..(i - 1) : s[j] \in WhiteSpace
           last  == CHOOSE i \in 1..Len(s) :
                      /\ s[i] \notin WhiteSpace
                      /\ \A j \in (i + 1)..Len(s) : s[j] \in WhiteSpace
       IN SubSeq(s, first, last)

\* the end (exclusive, 0-based) of the longest run of characters of class C
\* that starts at offset i: a greedy  [C]+  or  [C]*
RECURSIVE RunEnd(_, _, _)
RunEnd(text, i, C) ==
  IF i < Len(text) /\ text[i + 1] \in C THEN RunEnd(text, i + 1, C) ELSE i

\* the strings over alphabet A of length exactly n, and of length at most n
RECURSIVE StringsOfLen(_, _)
StringsOfLen(A, n) ==
  IF n = 0 THEN {<<>>}
  ELSE {Append(s, c) : s \in StringsOfLen(A, n - 1), c \in A}

StringsUpTo(A, n) == UNION {StringsOfLen(A, k) : k \in 0..n}

\* the concatenation of a sequence of strings
RECURSIVE Concat(_)
Concat(ss) == IF ss = <<>> THEN <<>> ELSE Head(ss) \o Concat(Tail(ss))

(***************************************************************************)
(* textProcessing.js: tokenizeText                                         *)
(***************************************************************************)
NoMatch == [index |-> -1, end |-> -1]

\* TEXT_PATTERNS.WORD.exec(text) with lastIndex = from: the leftmost match at
\* or after `from`; the first alternative that matches there, greedily
WordExec(text, from) ==
  LET starts == {i \in from..(Len(text) - 1) :
                   text[i + 1] \in WordChars \cup PunctChars}
  IN IF starts = {} THEN NoMatch
     ELSE LET i == CHOOSE k \in starts : \A j \in starts : k <= j
          IN [index |-> i,
              end   |-> IF text[i + 1] \in WordChars
                          THEN RunEnd(text, i, WordChars)
                          ELSE RunEnd(text, i, PunctChars)]

\* /[\w']+/.test(s)
HasWordChar(s) == \E i \in 1..Len(s) : s[i] \in WordChars

Token(txt, typ, start, end) ==
  [text |-> txt, type |-> typ, start |-> start, end |-> end]

\* the tokens pushed for the gap before a match (lines 177-187): only a
\* non-empty gap of pure white space is emitted
GapTokens(text, currentPos, matchIndex) ==
  IF matchIndex > currentPos
     /\ IsBlank(Slice(text, currentPos, matchIndex))
     /\ Len(Slice(text, currentPos, matchIndex)) > 0
    THEN <<Token(Slice(text, currentPos, matchIndex), "whitespace",
                 currentPos, matchIndex)>>
    ELSE <<>>

\* the token pushed for the text left after the last match (lines 201-209):
\* emitted whatever it holds, and typed whitespace
RemainingTokens(text, currentPos) ==
  IF currentPos < Len(text)
    THEN <<Token(Slice(text, currentPos, Len(text)), "whitespace",
                 currentPos, Len(text))>>
    ELSE <<>>

\* the while loop of tokenizeText, from the state (currentPos, tokens)
RECURSIVE TokenizeLoop(_, _, _)
TokenizeLoop(text, currentPos, tokens) ==
  LET match == WordExec(text, currentPos)
  IN IF match = NoMatch
       THEN tokens \o RemainingTokens(text, currentPos)
       ELSE LET m0 == Slice(text, match.index, match.end)
            IN TokenizeLoop(text, match.end,
                 (tokens \o GapTokens(text, currentPos, match.index))
                 \o <<Token(m0, IF HasWordChar(m0) THEN "word" ELSE "punctuation",
                            match.index, match.end)>>)

tokenizeText(text) ==
  IF text = <<>> THEN <<>> ELSE TokenizeLoop(text, 0, <<>>)

\* tokens.map(t => t.text).join('')
TokenTexts(tokens) == Concat([i \in 1..Len(tokens) |-> tokens[i].text])

\* tokenizeText(text).filter(token => token.type === 'word')
WordTokens(text) == SelectSeq(tokenizeText(text), LAMBDA t : t.type = "word")

(***************************************************************************)
(* textProcessing.js: tokenizeSentences, findSentenceIndex                 *)
(***************************************************************************)
\* TEXT_PATTERNS.SENTENCE.exec(text) with lastIndex = from:
\* [.!?]+ followed by \s+ or by the end of the text
SentenceExec(text, from) ==
  LET starts == {i \in from..(Len(text) - 1) :
                   /\ text[i + 1] \in TerminatorChars
                   /\ LET e == RunEnd(text, i, TerminatorChars)
                      IN e = Len(text) \/ text[e + 1] \in WhiteSpace}
  IN IF starts = {} THEN NoMatch
     ELSE LET i == CHOOSE k \in starts : \A j \in starts : k <= j
          IN [index |-> i,
              end   |-> RunEnd(text, RunEnd(text, i, TerminatorChars), WhiteSpace)]

\* a span whose text has lost its last character
SentenceClipped(txt, start, end) ==
  [text |-> SubSeq(txt, 1, Len(txt) - 1), start |-> start, end |-> end]

Sentence(txt, start, end) == [text |-> txt, start |-> start, end |-> end]

RECURSIVE SentenceLoop(_, _, _)
SentenceLoop(text, lastIndex, sentences) ==
  LET match == SentenceExec(text, lastIndex)
  IN IF match = NoMatch
       THEN IF lastIndex < Len(text)
                 /\ Len(Trim(Slice(text, lastIndex, Len(text)))) > 0
              THEN Append(sentences,
                     Sentence(Trim(Slice(text, lastIndex, Len(text))),
                              lastIndex, Len(text)))
              ELSE sentences
       ELSE LET sentence == Trim(Slice(text, lastIndex, match.end))
            IN SentenceLoop(text, match.end,
                 IF Len(sentence) > 0
                   THEN Append(sentences, Sentence(sentence, lastIndex, match.end))
                   ELSE sentences)

tokenizeSentences(text) ==
  IF text = <<>> THEN <<>> ELSE SentenceLoop(text, 0, <<>>)

\* sentences.findIndex(s => position >= s.start && position < s.end), 0-based
findSentenceIndex(sentences, position) ==
  LET hits == {i \in 1..Len(sentences) :
                 position >= sentences[i].start /\ position < sentences[i].end}
  IN IF hits = {} THEN -1
     ELSE (CHOOSE i \in hits : \A j \in hits : i <= j) - 1

(***************************************************************************)
(* textProcessing.js: validateText                                         *)
(***************************************************************************)
MAX_TEXT_LENGTH == 10000

ERR_EMPTY == "Text cannot be empty"

ERR_TOO_LONG == "Text too long (max 10,000 characters)"

NoError == "null"

TooLongAtLimit(text) == Len(text) >= MAX_TEXT_LENGTH

\* text.length > 10000
TooLong(text) == Len(text) > MAX_TEXT_LENGTH

validateText(text) ==
  IF text = <<>> \/ IsBlank(text)
    THEN [isValid |-> FALSE, error |-> ERR_EMPTY]
  ELSE IF TooLong(text)
    THEN [isValid |-> FALSE, error |-> ERR_TOO_LONG]
  ELSE [isValid |-> TRUE, error |-> NoError]

(***************************************************************************)
(* textSimplification.js: the dictionaries, in insertion order (the order  *)
(* of Object.keys).  Each entry is <<key, replacement>>.                   *)
(***************************************************************************)
VOCABULARY_SIMPLIFICATIONS ==
  <<
    <<<<"u","t","i","l","i","z","e">>,
      <<"u","s","e">>>>,
    <<<<"c","o","m","m","e","n","c","e">>,
      <<"s","t","a","r","t">>>>,
    <<<<"t","e","r","m","i","n","a","t","e">>,
      <<"e","n","d">>>>,
    <<<<"d","e","m","o","n","s","t","r","a","t","e">>,
      <<"s","h","o","w">>>>,
    <<<<"f","a","c","i","l","i","t","a","t","e">>,
      <<"h","e","l","p">>>>,
    <<<<"a","p","p","r","o","x","i","m","a","t","e","l","y">>,
      <<"a","b","o","u","t">>>>,
    <<<<"s","u","b","s","e","q","u","e","n","t","l","y">>,
      <<"t","h","e","n">>>>,
    <<<<"f","u","r","t","h","e","r","m","o","r","e">>,
      <<"a","l","s","o">>>>,
    <<<<"n","e","v","e","r","t","h","e","l","e","s","s">>,
      <<"h","o","w","e","v","e","r">>>>,
    <<<<"c","o","n","s","e","q","u","e","n","t","l","y">>,
      <<"s","o">>>>,
    <<<<"s","u","b","s","t","a","n","t","i","a","l">>,
      <<"l","a","r","g","e">>>>,
    <<<<"s","i","g","n","i","f","i","c","a","n","t">>,
      <<"i","m","p","o","r","t","a","n","t">>>>,
    <<<<"e","s","s","e","n","t","i","a","l">>,
      <<"n","e","e","d","e","d">>>>,
    <<<<"a","c","q","u","i","r","e">>,
      <<"g","e","t">>>>,
    <<<<"e","s","t","a","b","l","i","s","h">>,
      <<"c","r","e","a","t","e">>>>,
    <<<<"i","m","p","l","e","m","e","n","t">>,
      <<"d","o">>>>,
    <<<<"m","a","i","n","t","a","i","n">>,
      <<"k","e","e","p">>>>,
    <<<<"p","a","r","t","i","c","i","p","a","t","e">>,
      <<"j","o","i","n">>>>,
    <<<<"i","n","v","e","s","t","i","g","a","t","e">>,
      <<"s","t","u","d","y">>>>,
    <<<<"c","o","m","p","r","e","h","e","n","d">>,
      <<"u","n","d","e","r","s","t","a","n","d">>>>,
    <<<<"a","n","t","i","c","i","p","a","t","e">>,
      <<"e","x","p","e","c","t">>>>,
    <<<<"e","n","c","o","u","n","t","e","r">>,
      <<"m","e","e","t">>>>,
    <<<<"c","o","n","t","r","i","b","u","t","e">>,
      <<"h","e","l","p">>>>,
    <<<<"e","l","i","m","i","n","a","t","e">>,
      <<"r","e","m","o","v","e">>>>,
    <<<<"a","c","c","u","m","u","l","a","t","e">>,
      <<"g","a","t","h","e","r">>>>,
    <<<<"s","u","f","f","i","c","i","e","n","t">>,
      <<"e","n","o","u","g","h">>>>,
    <<<<"n","u","m","e","r","o","u","s">>,
      <<"m","a","n","y">>>>,
    <<<<"e","n","o","r","m","o","u","s">>,
      <<"h","u","g","e">>>>,
    <<<<"m","a","g","n","i","f","i","c","e","n","t">>,
      <<"g","r","e","a","t">>>>,
    <<<<"e","x","t","r","a","o","r","d","i","n","a","r","y">>,
      <<"a","m","a","z","i","n","g">>>>,
    <<<<"p","h","e","n","o","m","e","n","o","n">>,
      <<"e","v","e","n","t">>>>,
    <<<<"a","t","m","o","s","p","h","e","r","e">>,
      <<"a","i","r">>>>,
    <<<<"t","e","m","p","e","r","a","t","u","r","e">>,
      <<"h","e","a","t">>>>,
    <<<<"p","r","e","c","i","p","i","t","a","t","i","o","n">>,
      <<"r","a","i","n">>>>,
    <<<<"v","e","g","e","t","a","t","i","o","n">>,
      <<"p","l","a","n","t","s">>>>,
    <<<<"i","n","h","a","b","i","t","a","n","t","s">>,
      <<"p","e","o","p","l","e">>>>,
    <<<<"t","r","a","n","s","p","o","r","t","a","t","i","o","n">>,
      <<"t","r","a","v","e","l">>>>,
    <<<<"c","o","m","m","u","n","i","c","a","t","i","o","n">>,
      <<"t","a","l","k","i","n","g">>>>,
    <<<<"i","n","f","o","r","m","a","t","i","o","n">>,
      <<"f","a","c","t","s">>>>,
    <<<<"e","d","u","c","a","t","i","o","n">>,
      <<"l","e","a","r","n","i","n","g">>>>,
    <<<<"o","p","p","o","r","t","u","n","i","t","y">>,
      <<"c","h","a","n","c","e">>>>,
    <<<<"r","e","s","p","o","n","s","i","b","i","l","i","t","y">>,
      <<"d","u","t","y">>>>,
    <<<<"d","i","f","f","i","c","u","l","t","y">>,
      <<"p","r","o","b","l","e","m">>>>,
    <<<<"a","d","v","a","n","t","a","g","e">>,
      <<"b","e","n","e","f","i","t">>>>,
    <<<<"d","i","s","a","d","v","a","n","t","a","g","e">>,
      <<"p","r","o","b","l","e","m">>>>,
    <<<<"r","e","q","u","i","r","e","m","e","n","t">>,
      <<"n","e","e","d">>>>,
    <<<<"e","x","p","l","a","n","a","t","i","o","n">>,
      <<"r","e","a","s","o","n">>>>,
    <<<<"d","e","s","c","r","i","p","t","i","o","n">>,
      <<"d","e","t","a","i","l","s">>>>,
    <<<<"c","o","m","p","a","r","i","s","o","n">>,
      <<"c","o","n","t","r","a","s","t">>>>,
    <<<<"r","e","c","o","m","m","e","n","d","a","t","i","o","n">>,
      <<"a","d","v","i","c","e">>>>,
    <<<<"c","o","n","s","i","d","e","r","a","t","i","o","n">>,
      <<"t","h","o","u","g","h","t">>>>,
    <<<<"d","e","t","e","r","m","i","n","a","t","i","o","n">>,
      <<"d","e","c","i","s","i","o","n">>>>,
    <<<<"a","p","p","r","e","c","i","a","t","i","o","n">>,
      <<"t","h","a","n","k","s">>>>,
    <<<<"c","o","n","g","r","a","t","u","l","a","t","i","o","n","s">>,
      <<"w","e","l","l"," ","d","o","n","e">>>>,
    <<<<"u","n","f","o","r","t","u","n","a","t","e","l","y">>,
      <<"s","a","d","l","y">>>>,
    <<<<"p","a","r","t","i","c","u","l","a","r","l","y">>,
      <<"e","s","p","e","c","i","a","l","l","y">>>>,
    <<<<"i","m","m","e","d","i","a","t","e","l","y">>,
      <<"r","i","g","h","t"," ","a","w","a","y">>>>,
    <<<<"c","o","m","p","l","e","t","e","l","y">>,
      <<"f","u","l","l","y">>>>,
    <<<<"a","b","s","o","l","u","t","e","l","y">>,
      <<"t","o","t","a","l","l","y">>>>,
    <<<<"d","e","f","i","n","i","t","e","l","y">>,
      <<"s","u","r","e","l","y">>>>,
    <<<<"p","r","o","b","a","b","l","y">>,
      <<"m","a","y","b","e">>>>,
    <<<<"g","e","n","e","r","a","l","l","y">>,
      <<"u","s","u","a","l","l","y">>>>,
    <<<<"s","p","e","c","i","f","i","c","a","l","l","y">>,
      <<"e","x","a","c","t","l","y">>>>,
    <<<<"e","v","e","n","t","u","a","l","l","y">>,
      <<"f","i","n","a","l","l","y">>>>,
    <<<<"c","u","r","r","e","n","t","l","y">>,
      <<"n","o","w">>>>,
    <<<<"r","e","c","e","n","t","l","y">>,
      <<"l","a","t","e","l","y">>>>,
    <<<<"p","r","e","v","i","o","u","s","l","y">>,
      <<"b","e","f","o","r","e">>>>,
    <<<<"o","r","i","g","i","n","a","l","l","y">>,
      <<"f","i","r","s","t">>>>,
    <<<<"i","n","i","t","i","a","l","l","y">>,
      <<"a","t"," ","s","t","a","r","t">>>>
  >>

PHRASE_SIMPLIFICATIONS ==
  <<
    <<<<"i","n"," ","o","r","d","e","r"," ","t","o">>,
      <<"t","o">>>>,
    <<<<"d","u","e"," ","t","o"," ","t","h","e"," ","f","a","c","t"," ","t","h","a","t">>,
      <<"b","e","c","a","u","s","e">>>>,
    <<<<"i","n"," ","s","p","i","t","e"," ","o","f">>,
      <<"d","e","s","p","i","t","e">>>>,
    <<<<"w","i","t","h"," ","r","e","g","a","r","d"," ","t","o">>,
      <<"a","b","o","u","t">>>>,
    <<<<"i","n"," ","r","e","l","a","t","i","o","n"," ","t","o">>,
      <<"a","b","o","u","t">>>>,
    <<<<"i","n"," ","a","d","d","i","t","i","o","n"," ","t","o">>,
      <<"p","l","u","s">>>>,
    <<<<"a","s"," ","a"," ","r","e","s","u","l","t"," ","o","f">>,
      <<"b","e","c","a","u","s","e"," ","o","f">>>>,
    <<<<"f","o","r"," ","t","h","e"," ","p","u","r","p","o","s","e"," ","o","f">>,
      <<"t","o">>>>,
    <<<<"i","n"," ","t","h","e"," ","e","v","e","n","t"," ","t","h","a","t">>,
      <<"i","f">>>>,
    <<<<"a","t"," ","t","h","e"," ","p","r","e","s","e","n","t"," ","t","i","m","e">>,
      <<"n","o","w">>>>,
    <<<<"d","u","r","i","n","g"," ","t","h","e"," ","t","i","m","e"," ","t","h","a","t">>,
      <<"w","h","i","l","e">>>>,
    <<<<"i","n"," ","t","h","e"," ","n","e","a","r"," ","f","u","t","u","r","e">>,
      <<"s","o","o","n">>>>,
    <<<<"a","t"," ","t","h","i","s"," ","p","o","i","n","t"," ","i","n"," ","t","i","m","e">>,
      <<"n","o","w">>>>,
    <<<<"i","n"," ","t","h","e"," ","p","r","o","c","e","s","s"," ","o","f">>,
      <<"w","h","i","l","e">>>>,
    <<<<"m","a","k","e"," ","a"," ","d","e","c","i","s","i","o","n">>,
      <<"d","e","c","i","d","e">>>>,
    <<<<"c","o","m","e"," ","t","o"," ","a"," ","c","o","n","c","l","u","s","i","o","n">>,
      <<"c","o","n","c","l","u","d","e">>>>,
    <<<<"t","a","k","e"," ","i","n","t","o"," ","c","o","n","s","i","d","e","r","a","t","i","o","n">>,
      <<"c","o","n","s","i","d","e","r">>>>,
    <<<<"g","i","v","e"," ","c","o","n","s","i","d","e","r","a","t","i","o","n"," ","t","o">>,
      <<"c","o","n","s","i","d","e","r">>>>,
    <<<<"m","a","k","e"," ","a","n"," ","a","t","t","e","m","p","t">>,
      <<"t","r","y">>>>,
    <<<<"i","n"," ","t","h","e"," ","m","a","j","o","r","i","t","y"," ","o","f"," ","c","a","s","e","s">>,
      <<"u","s","u","a","l","l","y">>>>,
    <<<<"a"," ","l","a","r","g","e"," ","n","u","m","b","e","r"," ","o","f">>,
      <<"m","a","n","y">>>>,
    <<<<"a"," ","g","r","e","a","t"," ","d","e","a","l"," ","o","f">>,
      <<"m","u","c","h">>>>,
    <<<<"o","n"," ","a"," ","r","e","g","u","l","a","r"," ","b","a","s","i","s">>,
      <<"r","e","g","u","l","a","r","l","y">>>>,
    <<<<"i","n"," ","a"," ","t","i","m","e","l","y"," ","m","a","n","n","e","r">>,
      <<"o","n"," ","t","i","m","e">>>>,
    <<<<"o","f"," ","g","r","e","a","t"," ","i","m","p","o","r","t","a","n","c","e">>,
      <<"i","m","p","o","r","t","a","n","t">>>>,
    <<<<"a","t"," ","t","h","e"," ","s","a","m","e"," ","t","i","m","e">>,
      <<"m","e","a","n","w","h","i","l","e">>>>,
    <<<<"i","n"," ","t","h","e"," ","s","a","m","e"," ","w","a","y">>,
      <<"s","i","m","i","l","a","r","l","y">>>>,
    <<<<"o","n"," ","t","h","e"," ","o","t","h","e","r"," ","h","a","n","d">>,
      <<"h","o","w","e","v","e","r">>>>,
    <<<<"a","s"," ","a"," ","m","a","t","t","e","r"," ","o","f"," ","f","a","c","t">>,
      <<"a","c","t","u","a","l","l","y">>>>,
    <<<<"i","t"," ","i","s"," ","i","m","p","o","r","t","a","n","t"," ","t","o"," ","n","o","t","e">>,
      <<"n","o","t","e"," ","t","h","a","t">>>>,
    <<<<"i","t"," ","s","h","o","u","l","d"," ","b","e"," ","n","o","t","e","d">>,
      <<"n","o","t","e">>>>,
    <<<<"i","t"," ","i","s"," ","w","o","r","t","h"," ","m","e","n","t","i","o","n","i","n","g">>,
      <<"a","l","s","o">>>>
  >>

Key(entry) == entry[1]

Replacement(entry) == entry[2]

\* Object.keys(VOCABULARY_SIMPLIFICATIONS), as a set
VocabularyKeys ==
  {Key(VOCABULARY_SIMPLIFICATIONS[i]) : i \in 1..Len(VOCABULARY_SIMPLIFICATIONS)}

\* c.toLowerCase(), and the folding of the regular expressions' i flag
Lower(c) ==
  CASE c = "A" -> "a" [] c = "B" -> "b" [] c = "C" -> "c" [] c = "D" -> "d"
    [] c = "E" -> "e" [] c = "F" -> "f" [] c = "G" -> "g" [] c = "H" -> "h"
    [] c = "I" -> "i" [] c = "J" -> "j" [] c = "K" -> "k" [] c = "L" -> "l"
    [] c = "M" -> "m" [] c = "N" -> "n" [] c = "O" -> "o" [] c = "P" -> "p"
    [] c = "Q" -> "q" [] c = "R" -> "r" [] c = "S" -> "s" [] c = "T" -> "t"
    [] c = "U" -> "u" [] c = "V" -> "v" [] c = "W" -> "w" [] c = "X" -> "x"
    [] c = "Y" -> "y" [] c = "Z" -> "z" [] OTHER -> c

\* s.toLowerCase()
LowerCase(s) == [i \in 1..Len(s) |-> Lower(s[i])]

(***************************************************************************)
(* String.prototype.replace with a global, case-insensitive pattern that   *)
(* is a literal (pat, in lower case), optionally between two \b.           *)
(***************************************************************************)
\* the literal matches at offset i, ignoring case
LiteralAt(text, i, pat) ==
  /\ i + Len(pat) <= Len(text)
  /\ \A k \in 1..Len(pat) : Lower(text[i + k]) = pat[k]

\* \b at offset p: exactly one of the characters around p is a \w
BoundaryAt(text, p) ==
  (p > 0 /\ text[p] \in RegexWordChars)
    # (p < Len(text) /\ text[p + 1] \in RegexWordChars)

\* the pattern matches at offset i
PatternAt(text, i, pat, bounded) ==
  /\ LiteralAt(text, i, pat)
  /\ bounded => (BoundaryAt(text, i) /\ BoundaryAt(text, i + Len(pat)))

\* offset of the leftmost match at or after `from`, or -1
NextPatternMatch(text, from, pat, bounded) ==
  LET hits == {i \in from..(Len(text) - Len(pat)) : PatternAt(text, i, pat, bounded)}
  IN IF hits = {} THEN -1 ELSE CHOOSE i \in hits : \A j \in hits : i <= j

RECURSIVE ReplaceFrom(_, _, _, _, _)
ReplaceFrom(text, from, pat, rep, bounded) ==
  LET m == NextPatternMatch(text, from, pat, bounded)
  IN IF m = -1 THEN Slice(text, from, Len(text))
     ELSE (Slice(text, from, m) \o rep)
            \o ReplaceFrom(text, m + Len(pat), pat, rep, bounded)

\* text.replace(new RegExp(pat, 'gi'), rep), or with \b on both sides
ReplaceAll(text, pat, rep, bounded) == ReplaceFrom(text, 0, pat, rep, bounded)

(***************************************************************************)
(* textSimplification.js: simplifyVocabulary                               *)
(***************************************************************************)
\* Array.prototype.sort((a, b) => b.length - a.length): stable, longest
\* key first.  Insert e after the entries that are at least as long.
RECURSIVE InsertByLength(_, _)
InsertByLength(sorted, e) ==
  IF sorted = <<>> THEN <<e>>
  ELSE IF Len(Key(Head(sorted))) >= Len(Key(e))
    THEN <<Head(sorted)>> \o InsertByLength(Tail(sorted), e)
    ELSE <<e>> \o sorted

RECURSIVE SortByLength(_, _)
SortByLength(entries, sorted) ==
  IF entries = <<>> THEN sorted
  ELSE SortByLength(Tail(entries), InsertByLength(sorted, Head(entries)))

sortedPhrases == SortByLength(PHRASE_SIMPLIFICATIONS, <<>>)

\* entries.forEach(e => text = text.replace(regex(e), replacement(e)))
RECURSIVE ReplaceEach(_, _, _)
ReplaceEach(text, entries, bounded) ==
  IF entries = <<>> THEN text
  ELSE LET replaced == ReplaceAll(text, Key(Head(entries)),
                                  Replacement(Head(entries)), bounded)
       IN IF Len(replaced) >= 0   \* the replacement is computed before the next one
            THEN ReplaceEach(replaced, Tail(entries), bounded)
            ELSE replaced

\* lines 181-188: the phrases, longest first, matched anywhere
ReplacePhrases(text) == ReplaceEach(text, sortedPhrases, FALSE)

\* the loop over the words starting at the second key
ReplaceWordsSkipFirst(text) ==
  ReplaceEach(text, Tail(VOCABULARY_SIMPLIFICATIONS), TRUE)

\* lines 190-194: the words, in insertion order, between \b
ReplaceWords(text) == ReplaceEach(text, VOCABULARY_SIMPLIFICATIONS, TRUE)

simplifyVocabulary(text) == ReplaceWords(ReplacePhrases(text))

\* some key of the vocabulary table occurs in text as a whole word
HasVocabularyWord(text) ==
  \E e \in 1..Len(VOCABULARY_SIMPLIFICATIONS) :
    NextPatternMatch(text, 0, Key(VOCABULARY_SIMPLIFICATIONS[e]), TRUE) # -1

\* text.includes(s)
Includes(text, s) == \E i \in 0..(Len(text) - Len(s)) : SubSeq(text, i + 1, i + Len(s)) = s

\* s occurs in text between two \b
IncludesWord(text, s) == NextPatternMatch(text, 0, s, TRUE) # -1

(***************************************************************************)
(* textSimplification.js: calculateReadabilityScore                        *)
(*                                                                         *)
(* A JavaScript number is a record: a fraction n/d (d > 0), NaN, or        *)
(* Infinity.  The fractions are exact; binary rounding error of the        *)
(* floating-point operations is not modelled.                              *)
(***************************************************************************)
NaN == [kind |-> "NaN", n |-> 0, d |-> 1]

Infinity == [kind |-> "Infinity", n |-> 0, d |-> 1]

Number(n, d) == [kind |-> "finite", n |-> n, d |-> d]

IsFinite(x) == x.kind = "finite"

\* a / b for integers a, b >= 0, with JavaScript's 0/0 and n/0
Divide(a, b) ==
  IF b # 0 THEN Number(a, b) ELSE IF a = 0 THEN NaN ELSE Infinity

\* x < k; a comparison with NaN is false
LessThan(x, k) == IsFinite(x) /\ x.n < k * x.d

\* x > k/kd; a comparison with NaN is false
GreaterThan(x, k, kd) ==
  \/ x.kind = "Infinity"
  \/ IsFinite(x) /\ x.n * kd > k * x.d

\* Math.round(x * scale) / div  for x >= 0
RoundScaled(x, scale, div) ==
  IF IsFinite(x)
    THEN Number((2 * scale * x.n + x.d) \div (2 * x.d), div)
    ELSE x

\* str.split(/[C]+/): the pieces between the longest runs of characters of C
RECURSIVE SplitFrom(_, _, _)
SplitFrom(text, from, C) ==
  LET seps == {i \in from..(Len(text) - 1) : text[i + 1] \in C}
  IN IF seps = {} THEN <<Slice(text, from, Len(text))>>
     ELSE LET i == CHOOSE k \in seps : \A j \in seps : k <= j
          IN <<Slice(text, from, i)>> \o SplitFrom(text, RunEnd(text, i, C), C)

Split(text, C) == SplitFrom(text, 0, C)

\* text.split(/[.!?]+/).filter(s => s.trim().length > 0)
ReadabilitySentences(text) ==
  SelectSeq(Split(text, TerminatorChars), LAMBDA s : Len(Trim(s)) > 0)

\* text.split(/\s+/).filter(w => w.length > 0)
ReadabilityWords(text) ==
  SelectSeq(Split(text, WhiteSpace), LAMBDA w : Len(w) > 0)

COMPLEX_WORD_LENGTH == 6

\* properties every object inherits, which the lookup
\* VOCABULARY_SIMPLIFICATIONS[word.toLowerCase()] also finds (truthy)
InheritedKeys ==
  {<<"c","o","n","s","t","r","u","c","t","o","r">>,
   <<"_","_","p","r","o","t","o","_","_">>}

\* word.length > 6 && !VOCABULARY_SIMPLIFICATIONS[word.toLowerCase()]
IsComplexWord(word) ==
  /\ Len(word) > COMPLEX_WORD_LENGTH
  /\ LowerCase(word) \notin VocabularyKeys \cup InheritedKeys

\* /\b(was|were|is|are|been|being)\s+\w+ed\b/gi
PassiveAuxiliaries ==
  {<<"w","a","s">>, <<"w","e","r","e">>, <<"i","s">>, <<"a","r","e">>,
   <<"b","e","e","n">>, <<"b","e","i","n","g">>}

\* the passive-voice pattern matches at offset i with auxiliary aux: the
\* auxiliary after a \b, white space, then a run of \w that ends in "ed"
PassiveAt(text, i, aux) ==
  /\ BoundaryAt(text, i)
  /\ LiteralAt(text, i, aux)
  /\ LET ws == i + Len(aux)
         w  == RunEnd(text, ws, WhiteSpace)
         e  == RunEnd(text, w, RegexWordChars)
     IN /\ w > ws
        /\ e - w >= 3
        /\ Lower(text[e - 1]) = "e"
        /\ Lower(text[e]) = "d"

\* (text.match(passiveVoicePattern) || []).length.  Two matches cannot
\* overlap, as no auxiliary ends in "ed".
PassiveMatches(text) ==
  Cardinality({i \in 0..(Len(text) - 1) :
                 \E aux \in PassiveAuxiliaries : PassiveAt(text, i, aux)})

generateSimplificationSuggestions(text, avgSentenceLength, complexWordRatio) ==
  (IF GreaterThan(avgSentenceLength, 20, 1)
     THEN <<"sentence_length">> ELSE <<>>)
  \o (IF GreaterThan(complexWordRatio, 15, 100)
        THEN <<"vocabulary">> ELSE <<>>)
  \o (IF PassiveMatches(text) > 2 THEN <<"voice">> ELSE <<>>)

\* (avgSentenceLength * 0.39) + (complexWordRatio * 100)
ReadabilityRawScore(avg, ratio) ==
  IF avg.kind = "NaN" \/ ratio.kind = "NaN" THEN NaN
  ELSE IF avg.kind = "Infinity" \/ ratio.kind = "Infinity" THEN Infinity
  ELSE Number(39 * avg.n * ratio.d + 10000 * ratio.n * avg.d,
              100 * avg.d * ratio.d)

\* score < 30 ? 'Easy' : score < 50 ? 'Medium' : score < 70 ? 'Hard' : 'Very Hard'
ReadabilityLevel(score) ==
  IF LessThan(score, 30) THEN "Easy"
  ELSE IF LessThan(score, 50) THEN "Medium"
  ELSE IF LessThan(score, 70) THEN "Hard"
  ELSE "Very Hard"

\* words.length / sentences.length
AvgSentenceLength(nWords, nSentences) == Divide(nWords, nSentences)

calculateReadabilityScore(text) ==
  LET sentences == ReadabilitySentences(text)
      words == ReadabilityWords(text)
      avgSentenceLength == AvgSentenceLength(Len(words), Len(sentences))
      complexWords == Len(SelectSeq(words, IsComplexWord))
      complexWordRatio == Divide(complexWords, Len(words))
      score == ReadabilityRawScore(avgSentenceLength, complexWordRatio)
  IN [score |-> RoundScaled(score, 10, 10),
      level |-> ReadabilityLevel(score),
      avgSentenceLength |-> RoundScaled(avgSentenceLength, 10, 10),
      complexWordRatio |-> RoundScaled(complexWordRatio, 1000, 10),
      totalWords |-> Len(words),
      totalSentences |-> Len(sentences),
      suggestions |-> generateSimplificationSuggestions(
                        text, avgSentenceLength, complexWordRatio)]


(***************************************************************************)
(* textSimplification.js: simplifyStructure                                *)
(***************************************************************************)
\* str.split(/([C]+)/): the pieces between the longest runs of characters
\* of C, each followed by the run that ends it (the captured group)
RECURSIVE SplitCaptureFrom(_, _, _)
SplitCaptureFrom(text, from, C) ==
  LET seps == {i \in from..(Len(text) - 1) : text[i + 1] \in C}
  IN IF seps = {} THEN <<Slice(text, from, Len(text))>>
     ELSE LET i == CHOOSE k \in seps : \A j \in seps : k <= j
              e == RunEnd(text, i, C)
          IN <<Slice(text, from, i), Slice(text, i, e)>>
               \o SplitCaptureFrom(text, e, C)

\* text.split(/([.!?]+)/).filter(s => s.trim().length > 0)
StructureSentences(text) ==
  SelectSeq(SplitCaptureFrom(text, 0, TerminatorChars),
            LAMBDA s : Len(Trim(s)) > 0)

\* words.join(' ')
RECURSIVE Join(_, _)
Join(words, sep) ==
  IF words = <<>> THEN <<>>
  ELSE IF Len(words) = 1 THEN words[1]
  ELSE words[1] \o sep \o Join(Tail(words), sep)

\* sentence.trim().split(/\s+/)
StructureWords(sentence) == Split(Trim(sentence), WhiteSpace)

LONG_SENTENCE_WORDS == 25

MIN_CONJUNCTION_INDEX == 5

MIN_SEGMENT_WORDS == 8

conjunctions ==
  {<<"a","n","d">>, <<"b","u","t">>, <<"o","r">>, <<"s","o">>,
   <<"y","e","t">>, <<"f","o","r">>, <<"n","o","r">>,
   <<"b","e","c","a","u","s","e">>, <<"a","l","t","h","o","u","g","h">>,
   <<"w","h","i","l","e">>, <<"s","i","n","c","e">>,
   <<"u","n","l","e","s","s">>, <<"u","n","t","i","l">>,
   <<"w","h","e","n">>, <<"w","h","e","r","e">>,
   <<"a","f","t","e","r">>, <<"b","e","f","o","r","e">>}

\* conjunctions.includes(word.toLowerCase()) && index > 5, index 0-based
IsSplitPoint(words, index) ==
  /\ LowerCase(words[index + 1]) \in conjunctions
  /\ index > MIN_CONJUNCTION_INDEX

\* the indices pushed by words.forEach, in increasing order
RECURSIVE SplitPointsFrom(_, _)
SplitPointsFrom(words, index) ==
  IF index >= Len(words) THEN <<>>
  ELSE (IF IsSplitPoint(words, index) THEN <<index>> ELSE <<>>)
         \o SplitPointsFrom(words, index + 1)

SplitPoints(words) == SplitPointsFrom(words, 0)

\* splitPoint - lastSplit > 8
FarEnough(splitPoint, lastSplit) == splitPoint - lastSplit > MIN_SEGMENT_WORDS

\* splitPoints.forEach(...) followed by the remaining words
RECURSIVE SplitAtPoints(_, _, _, _)
SplitAtPoints(words, points, lastSplit, punctuation) ==
  IF points = <<>>
    THEN LET remaining == Join(Slice(words, lastSplit, Len(words)), <<" ">>)
         IN IF Trim(remaining) # <<>>
              THEN <<Trim(remaining) \o punctuation>> ELSE <<>>
    ELSE LET splitPoint == Head(points)
         IN IF FarEnough(splitPoint, lastSplit)
              THEN LET part == Join(Slice(words, lastSplit, splitPoint), <<" ">>)
                   IN (IF Trim(part) # <<>> THEN <<Trim(part) \o <<".">>>> ELSE <<>>)
                        \o SplitAtPoints(words, Tail(points), splitPoint, punctuation)
              ELSE SplitAtPoints(words, Tail(points), lastSplit, punctuation)

\* a split one word after the middle
SplitAfterMidPoint(words, punctuation) ==
  LET midPoint == Len(words) \div 2 + 1
  IN <<Join(Slice(words, 0, midPoint), <<" ">>) \o <<".">>,
       Join(Slice(words, midPoint, Len(words)), <<" ">>) \o punctuation>>

\* Math.floor(words.length / 2) and the two halves
SplitAtMidPoint(words, punctuation) ==
  LET midPoint == Len(words) \div 2
      firstHalf == Join(Slice(words, 0, midPoint), <<" ">>)
      secondHalf == Join(Slice(words, midPoint, Len(words)), <<" ">>)
  IN <<Trim(firstHalf) \o <<".">>, Trim(secondHalf) \o punctuation>>

\* the segments pushed for one sentence and its punctuation
SentenceSegments(sentence, punctuation) ==
  LET words == StructureWords(sentence)
  IN IF Len(words) > LONG_SENTENCE_WORDS
       THEN IF SplitPoints(words) # <<>>
              THEN SplitAtPoints(words, SplitPoints(words), 0, punctuation)
              ELSE SplitAtMidPoint(words, punctuation)
       ELSE <<Trim(sentence) \o punctuation>>

\* for (let i = 0; i < sentences.length; i += 2), i 0-based; sentences[i + 1]
\* is undefined beyond the end and '.' takes its place
RECURSIVE StructureLoop(_, _)
StructureLoop(pieces, i) ==
  IF i >= Len(pieces) THEN <<>>
  ELSE LET sentence == pieces[i + 1]
           punctuation == IF i + 1 < Len(pieces) THEN pieces[i + 2] ELSE <<".">>
       IN (IF Trim(sentence) = <<>> THEN <<>>
           ELSE SentenceSegments(sentence, punctuation))
            \o StructureLoop(pieces, i + 2)

\* the array simplifiedSentences
simplifiedSentences(text) == StructureLoop(StructureSentences(text), 0)

simplifyStructure(text) == Join(simplifiedSentences(text), <<" ">>)


(***************************************************************************)
(* TextToSpeech component (part_007) with the BrowserTTS wrapper and the   *)
(* speech and audio engines it drives.                                     *)
(*                                                                         *)
(* Time is counted in milliseconds and advances in steps of one polling    *)
(* interval; every delay of the component is a multiple of it.  A timer is *)
(* a record with the time left until it fires; a fallback loop keeps the   *)
(* time elapsed since its startTime instead of reading a clock.            *)
(***************************************************************************)
HIGHLIGHT_UPDATE_INTERVAL == 50

FALLBACK_DELAY == 200

WORDS_PER_MINUTE_BASE == 150

RESUME_DELAY == 100

RESET_DELAY == 150

SERVER_FALLBACK_DELAY == 1000

LOAD_VOICES_DELAY == 100

\* speech rates in tenths: TTS_CONFIG.DEFAULT_RATE and TTS_CONFIG.MAX_RATE
DEFAULT_RATE == 10

MAX_RATE == 20

Rates == {DEFAULT_RATE, MAX_RATE}

\* the number of play requests that start a session in one run
MaxSessions == 3

\* the number of times the user pauses in one run
MaxPauses == 1

\* the number of times the user changes the text, the rate, the voice or
\* the mode in one run
MaxEdits == 2

\* the positions of an audio track that the model distinguishes:
\* currentTime / duration is position / AudioSteps
AudioSteps == 3

\* the texts the user can put in the text area: three words in two
\* sentences; a word outside the first sentence span; a valid text without
\* word tokens; a text one character over the limit of validateText
Texts ==
  << <<"a"," ","b","."," ","c">>,
     <<"."," ","a">>,
     <<".",".",".">>,
     [i \in 1..(MAX_TEXT_LENGTH + 1) |-> "a"] >>

TextIds == 1..Len(Texts)

\* DEFAULT_TEXT: several words in more than one sentence
DEFAULT_TEXT == 1

ValidTextIds == {t \in TextIds : validateText(Texts[t]).isValid}

\* tokenizeText(text).filter(token => token.type === 'word') and
\* tokenizeSentences(text) of the texts that pass validation
TextWords == [t \in ValidTextIds |-> WordTokens(Texts[t])]

TextSentences == [t \in ValidTextIds |-> tokenizeSentences(Texts[t])]

\* calculateWordTiming(speechRate) is 60000 / (150 * speechRate) ms per
\* word; Math.floor(elapsed / msPerWord) with the rate in tenths
ExpectedWordIndex(elapsed, rate) ==
  (elapsed * WORDS_PER_MINUTE_BASE * rate) \div (60 * 1000 * 10)

\* Math.floor(currentTime / audioDuration * words.length)
ProgressWordIndex(position, nWords) == (position * nWords) \div AudioSteps

VARIABLES
  text,                  \* React state: the id of the text in the text area
  speechRate,            \* React state, in tenths
  selectedVoice,         \* React state: TRUE when a voice is selected
  useBrowserTTS,         \* React state
  isLoading,             \* React state
  isPlaying,             \* React state
  isPaused,              \* React state
  currentWordIndex,      \* React state
  currentSentenceIndex,  \* React state
  error,                 \* React state: a message or "null"
  audioRef,              \* audioRef.current: the session of the Audio, or 0
  utteranceRef,          \* utteranceRef.current: the session of the utterance, or 0
  highlightTimeoutRef,   \* highlightTimeoutRef.current: a timer reference
  memoWordIndex,         \* currentWordIndex as captured by the memoized
                         \* startBackendHighlighting that handleServerTTS holds
  synth,                 \* window.speechSynthesis
  synthEvents,           \* utterance events queued by the engine, in order
  nextSession,           \* the id the next utterance or Audio gets
  sess,                  \* per session: the closure of its handlers and its Audio
  timers,                \* the pending setTimeout callbacks, in the order
                         \* of their creation
  budget                 \* the sessions, pauses and edits left to this run

configVars == <<text, speechRate, selectedVoice, useBrowserTTS>>

displayVars == <<isLoading, isPlaying, isPaused, currentWordIndex,
                 currentSentenceIndex, error>>

refVars == <<audioRef, utteranceRef, highlightTimeoutRef>>

engineVars == <<synth, synthEvents>>

playVars == <<text, speechRate, selectedVoice, useBrowserTTS,
              isLoading, isPlaying, isPaused, currentWordIndex,
              currentSentenceIndex, error,
              audioRef, utteranceRef, highlightTimeoutRef, memoWordIndex,
              synth, synthEvents, nextSession, sess, timers, budget>>

NoSession == 0

SessionIds == 1..MaxSessions

\* a value of highlightTimeoutRef.current: null, the id of a timer that has
\* fired or was cleared, or the id of a pending timer (its kind and session)
NoTimer == [kind |-> "null", sess |-> NoSession]

StaleTimer == [kind |-> "stale", sess |-> NoSession]

TimerRef(kind, s) == [kind |-> kind, sess |-> s]

\* what the callback of a timer holds besides its session: the variables of
\* a fallbackHighlighting closure (the time since startTime,
\* fallbackWordIndex, and its own copies of hasStartedFallback and
\* boundaryWordIndex); whether a loadVoices closure selects a voice; the
\* text, rate, voice and currentWordIndex of the render whose callbacks it
\* runs
NoArg == [elapsed |-> 0, index |-> 0, started |-> FALSE, boundary |-> 0,
          select |-> FALSE,
          text |-> DEFAULT_TEXT, rate |-> DEFAULT_RATE, voice |-> FALSE,
          memo |-> -1, words |-> <<>>, sentences |-> <<>>]

\* setTimeout(callback, left)
Timer(kind, s, left, arg) == [kind |-> kind, sess |-> s, left |-> left, arg |-> arg]

FallbackKinds == {"fallbackDelay", "fallbackTick"}

ResumeKinds == {"resumeDelay", "resumeTick"}

RefOf(timer) == TimerRef(timer.kind, timer.sess)

\* clearTimeout(ref)
KeepsTimer(t, ref) == RefOf(t) # ref

ClearTimeout(tm, ref) == SelectSeq(tm, LAMBDA t : KeepsTimer(t, ref))

\* the pending timers without the i-th
Without(tm, i) == [j \in 1..(Len(tm) - 1) |-> IF j < i THEN tm[j] ELSE tm[j + 1]]

\* timers that are due at the same time run in the order of their creation
IsNextDue(i) ==
  /\ i \in 1..Len(timers)
  /\ timers[i].left = 0
  /\ \A j \in 1..(i - 1) : timers[j].left > 0

\* a session before its play request; a session whose utterance or Audio
\* no handler can reach any more is the same again
NoSessionData ==
  [text |-> DEFAULT_TEXT, rate |-> DEFAULT_RATE, voice |-> FALSE,
   memo |-> -1,
   boundaryWordIndex |-> 0, hasStartedFallback |-> FALSE,
   audio |-> "none", hasChunks |-> FALSE, position |-> 0, srcError |-> FALSE]

SynthIdle == [utt |-> NoSession, speaking |-> FALSE, paused |-> FALSE]

Budget(sessions, pauses, edits) ==
  [sessions |-> sessions, pauses |-> pauses, edits |-> edits]

Spend(what) == budget' = [budget EXCEPT ![what] = @ - 1]

PlayInit(b) ==
  /\ text = DEFAULT_TEXT
  /\ speechRate = DEFAULT_RATE
  /\ selectedVoice = FALSE
  /\ useBrowserTTS = TRUE
  /\ isLoading = FALSE
  /\ isPlaying = FALSE
  /\ isPaused = FALSE
  /\ currentWordIndex = -1
  /\ currentSentenceIndex = -1
  /\ error = "null"
  /\ audioRef = NoSession
  /\ utteranceRef = NoSession
  /\ highlightTimeoutRef = NoTimer
  /\ memoWordIndex = -1
  /\ synth = SynthIdle
  /\ synthEvents = <<>>
  /\ nextSession = 1
  /\ sess = [s \in SessionIds |-> NoSessionData]
  /\ timers = <<>>
  /\ budget = b


(***************************************************************************)
(* The pure functions are applied to inputs drawn from bounded sets.       *)
(***************************************************************************)
VARIABLES
  input,        \* the argument text
  pc,           \* "input" before the function is applied, then its name
  tokens,       \* the result of tokenizeText
  validation,   \* the result of validateText
  readability,  \* the result of calculateReadabilityScore
  simplified,   \* the result of simplifyVocabulary(input)
  resimplified, \* the result of simplifyVocabulary(simplified)
  segments,     \* the array simplifiedSentences of simplifyStructure
  spans         \* the result of tokenizeSentences

textVars ==
  <<input, pc, tokens, validation, readability, simplified, resimplified,
    segments, spans>>

NoResult == <<>>

NoValidation == [isValid |-> FALSE, error |-> "none"]

NoReadability ==
  [score |-> NaN, level |-> "none", avgSentenceLength |-> NaN,
   complexWordRatio |-> NaN, totalWords |-> 0, totalSentences |-> 0,
   suggestions |-> <<>>]

TextInit(inputs) ==
  /\ input \in inputs
  /\ pc = "input"
  /\ tokens = NoResult
  /\ validation = NoValidation
  /\ readability = NoReadability
  /\ simplified = NoResult
  /\ resimplified = NoResult
  /\ segments = NoResult
  /\ spans = NoResult
  /\ PlayInit(Budget(0, 0, 0))

\* ---- tokenizeText ------------------------------------------------------
MaxTokenizeLen == 4

\* a word character, an apostrophe, white space, punctuation, and two
\* characters that are in none of the tokenizer's classes
TokenizeAlphabet == {"a", "'", " ", ".", "-", "@", "("}

TokenizeInputs == StringsUpTo(TokenizeAlphabet, MaxTokenizeLen)

TokenizeText ==
  /\ pc = "input"
  /\ tokens' = tokenizeText(input)
  /\ pc' = "tokenizeText"
  /\ UNCHANGED <<input, validation, readability, simplified, resimplified,
               segments, spans, playVars>>

\* ---- validateText ------------------------------------------------------
MaxValidatePrefix == 2

\* lengths around the limit of validateText, as offsets from it
ValidateLengths ==
  {0, 1, 2} \cup {MAX_TEXT_LENGTH + k : k \in {-3, -2, -1, 0, 1, 2}}

\* a short prefix over {"a", " ", tab} followed by a filler character
\* repeated up to one of ValidateLengths
ValidateInputs ==
  {p \o [i \in 1..(n - Len(p)) |-> c] :
     p \in StringsUpTo({"a", " ", "\t"}, MaxValidatePrefix),
     n \in ValidateLengths, c \in {"a", " "}}

ValidateText ==
  /\ pc = "input"
  /\ validation' = validateText(input)
  /\ pc' = "validateText"
  /\ UNCHANGED <<input, tokens, readability, simplified, resimplified,
               segments, spans, playVars>>

\* ---- calculateReadabilityScore -----------------------------------------
MaxReadabilityPieces == 4

ReadabilityPieces ==
  {<<"a">>, <<" ">>, <<".">>, <<"?">>,
   <<"u","t","i","l","i","z","e">>,
   <<"l","e","a","r","n","i","n","g">>,
   <<"w","a","s"," ","l","i","k","e","d"," ">>}

RECURSIVE PieceTexts(_, _)
PieceTexts(pieces, n) ==
  IF n = 0 THEN {<<>>}
  ELSE {t \o p : t \in PieceTexts(pieces, n - 1), p \in pieces \cup {<<>>}}

ReadabilityInputs == PieceTexts(ReadabilityPieces, MaxReadabilityPieces)

CalculateReadabilityScore ==
  /\ pc = "input"
  /\ readability' = calculateReadabilityScore(input)
  /\ pc' = "calculateReadabilityScore"
  /\ UNCHANGED <<input, tokens, validation, simplified, resimplified,
               segments, spans, playVars>>

\* ---- simplifyVocabulary ------------------------------------------------
MaxVocabularyPieces == 3

VocabularyPieces ==
  {<<"i","n"," ","o","r","d","e","r">>,
   <<" ","t","o">>,
   <<"m","a","k","e"," ","a">>,
   <<" ","d","e","t","e","r","m","i","n","a","t","i","o","n">>,
   <<" ">>,
   <<"U","t","i","l","i","z","e">>,
   <<"b","e","g">>}

\* the texts named by the specification's scenarios
VocabularyScenarios ==
  {<<"u","t","i","l","i","z","e"," ","t","h","i","s"," ",
     "i","n"," ","o","r","d","e","r"," ","t","o"," ",
     "f","a","c","i","l","i","t","a","t","e"," ",
     "l","e","a","r","n","i","n","g",".">>,
   <<"i","n"," ","o","r","d","e","r"," ","i","n"," ","o","r","d","e","r",
     " ","t","o"," ","t","o">>,
   <<"b","e","g","i","n"," ","o","r","d","e","r"," ",
     "t","o","m","o","r","r","o","w">>}

VocabularyInputs ==
  PieceTexts(VocabularyPieces, MaxVocabularyPieces) \cup VocabularyScenarios

SimplifyVocabulary ==
  /\ pc = "input"
  /\ simplified' = simplifyVocabulary(input)
  /\ pc' = "simplifyVocabulary"
  /\ UNCHANGED <<input, tokens, validation, readability, resimplified,
               segments, spans, playVars>>

SimplifyVocabularyAgain ==
  /\ pc = "simplifyVocabulary"
  /\ resimplified' = simplifyVocabulary(simplified)
  /\ pc' = "simplifyVocabularyTwice"
  /\ UNCHANGED <<input, tokens, validation, readability, simplified,
               segments, spans, playVars>>

\* ---- simplifyStructure -------------------------------------------------
MaxStructureWords == 30

MaxStructurePieces == 4

\* word counts at and just above the limit of 25 words
StructureLengths ==
  {LONG_SENTENCE_WORDS, LONG_SENTENCE_WORDS + 1, LONG_SENTENCE_WORDS + 2,
   MaxStructureWords}

\* word indices that may hold a conjunction: not after index 5, too close
\* to the start, far enough, and close to or far from a split at index 9
ConjunctionSlots == {5, 6, 8, 9, 17, 18}

\* a sentence of n words, the words at the indices of slots conjunctions
StructureSentence(n, slots) ==
  Join([k \in 1..n |->
          IF (k - 1) \in slots
            THEN (IF (k - 1) % 2 = 0 THEN <<"a","n","d">> ELSE <<"B","u","t">>)
            ELSE <<"w">>],
       <<" ">>)

LongStructureInputs ==
  {prefix \o StructureSentence(n, slots) \o terminator :
     prefix \in {<<>>, <<".", " ">>},
     n \in StructureLengths,
     slots \in SUBSET ConjunctionSlots,
     terminator \in {<<>>, <<".">>, <<"?", "!">>}}

StructureInputs ==
  LongStructureInputs
    \cup PieceTexts({<<"a">>, <<" ">>, <<".">>, <<"!">>, <<"b", " ", "c">>},
                    MaxStructurePieces)

SimplifyStructure ==
  /\ pc = "input"
  /\ segments' = simplifiedSentences(input)
  /\ simplified' = simplifyStructure(input)
  /\ pc' = "simplifyStructure"
  /\ UNCHANGED <<input, tokens, validation, readability, resimplified,
                 spans, playVars>>

\* ---- tokenizeSentences -------------------------------------------------
MaxSentenceLen == 5

\* a word character, white space and two terminators
SentenceAlphabet == {"a", " ", ".", "!"}

SentenceInputs == StringsUpTo(SentenceAlphabet, MaxSentenceLen)

TokenizeSentences ==
  /\ pc = "input"
  /\ spans' = tokenizeSentences(input)
  /\ pc' = "tokenizeSentences"
  /\ UNCHANGED <<input, tokens, validation, readability, simplified,
                 resimplified, segments, playVars>>


(***************************************************************************)
(* Pieces of handlers, as values.                                          *)
(***************************************************************************)
\* highlightTimeoutRef.current after clearTimeout without an assignment, or
\* after the timer it names has fired: still not null, but no pending timer
Stale(ref) == IF ref = NoTimer THEN NoTimer ELSE StaleTimer

\* speechSynthesis.cancel(): the utterance is dropped; the paused state of
\* the synthesizer is kept
SynthCancel(sy) == [utt |-> NoSession, speaking |-> FALSE, paused |-> sy.paused]

\* the engine tells a cancelled utterance so, after the caller has returned
CancelEvents(ev, sy) ==
  IF sy.utt # NoSession
    THEN Append(ev, [utt |-> sy.utt, name |-> "cancelled"])
    ELSE ev

\* audio.pause(); audio.src = "" on the Audio of audioRef: it stops for
\* good, and the element gets an error event for its empty src
AudioCleared(se, a) ==
  IF a = NoSession THEN se
  ELSE [se EXCEPT ![a] = [NoSessionData EXCEPT !.audio = "cleared",
                                               !.srcError = TRUE]]

\* the utterance of the synthesizer sy is cancelled, has ended or has failed
Dropped(se, sy) ==
  IF sy.utt = NoSession THEN se ELSE [se EXCEPT ![sy.utt] = NoSessionData]

\* cleanup(), lines 91-103: its effect on the synthesizer, the event queue,
\* the sessions and the timers; highlightTimeoutRef.current ends null
CleanupSynth == IF utteranceRef # NoSession THEN SynthCancel(synth) ELSE synth

CleanupEvents ==
  IF utteranceRef # NoSession THEN CancelEvents(synthEvents, synth) ELSE synthEvents

CleanupSess ==
  AudioCleared(IF utteranceRef # NoSession THEN Dropped(sess, synth) ELSE sess,
               audioRef)

CleanupTimers(tm) == ClearTimeout(tm, highlightTimeoutRef)

\* the timers after resetPlaybackState(), lines 347-355:
\* the delayed reset is scheduled and the tracked timer is cleared
ResetTimers(tm, ref) ==
  Append(ClearTimeout(tm, ref), Timer("reset", NoSession, RESET_DELAY, NoArg))

\* the sentence index after a word is highlighted (lines 142-148, 276-282,
\* 311-317): updated only when a sentence holds the word's start
SentenceOf(sentences, words, wordIndex) ==
  LET idx == findSentenceIndex(sentences, words[wordIndex + 1].start)
  IN IF idx # -1 THEN idx ELSE currentSentenceIndex

SentenceAfter(t, wordIndex) == SentenceOf(TextSentences[t], TextWords[t], wordIndex)

\* setError(message); return  (lines 110-113, 115-118, 190-193)
RejectPlayLoading(message) ==
  /\ error' = message
  /\ isLoading' = TRUE
  /\ UNCHANGED <<text, speechRate, selectedVoice,
                 isPlaying, isPaused, currentWordIndex, currentSentenceIndex,
                 audioRef, utteranceRef, highlightTimeoutRef, memoWordIndex,
                 synth, synthEvents, nextSession, sess, budget>>

RejectPlay(message) ==
  /\ error' = message
  /\ UNCHANGED <<text, speechRate, selectedVoice,
                 isLoading, isPlaying, isPaused, currentWordIndex,
                 currentSentenceIndex,
                 audioRef, utteranceRef, highlightTimeoutRef, memoWordIndex,
                 synth, synthEvents, nextSession, sess, budget>>

(***************************************************************************)
(* handleBrowserTTS, lines 108-183, with the text, voice and rate of the   *)
(* closure that runs it; sid is the session of the new utterance and tm    *)
(* the pending timers.  useBrowserTTS is left to the caller.               *)
(***************************************************************************)
handleBrowserTTS(t, voice, rate, sid, tm) ==
  LET checked == validateText(Texts[t])
  IN IF ~checked.isValid
       THEN RejectPlay(checked.error) /\ timers' = tm
     ELSE IF ~voice
       THEN RejectPlay("Please select a voice") /\ timers' = tm
     ELSE
       /\ IF sid = nextSession
            THEN sid \in SessionIds /\ budget.sessions > 0 /\ Spend("sessions")
            ELSE UNCHANGED budget
       /\ error' = "null"
       \* cleanup(), then browserTTS.speak(): cancel() and synthesis.speak()
       /\ synth' = [utt |-> sid, speaking |-> FALSE, paused |-> synth.paused]
       /\ synthEvents' = CancelEvents(synthEvents, synth)
       /\ sess' = [Dropped(CleanupSess, synth) EXCEPT ![sid] =
                     [NoSessionData EXCEPT !.text = t, !.rate = rate,
                                           !.voice = voice]]
       /\ timers' = CleanupTimers(tm)
       /\ highlightTimeoutRef' = NoTimer
       /\ utteranceRef' = sid
       /\ nextSession' = IF sid = nextSession THEN nextSession + 1 ELSE nextSession
       /\ UNCHANGED <<text, speechRate, selectedVoice,
                      isLoading, isPlaying, isPaused, currentWordIndex,
                      currentSentenceIndex, audioRef, memoWordIndex>>

(***************************************************************************)
(* handleServerTTS, lines 188-197: up to the first await                   *)
(***************************************************************************)
handleServerTTS ==
  LET checked == validateText(Texts[text])
  IN IF ~checked.isValid
       THEN RejectPlay(checked.error) /\ UNCHANGED timers
     ELSE
       /\ nextSession \in SessionIds /\ budget.sessions > 0 /\ Spend("sessions")
       /\ error' = "null"
       /\ isLoading' = TRUE
       /\ synth' = CleanupSynth
       /\ synthEvents' = CleanupEvents
       /\ sess' = [CleanupSess EXCEPT ![nextSession] =
                     [NoSessionData EXCEPT !.text = text,
                                           !.rate = speechRate,
                                           !.voice = selectedVoice,
                                           !.memo = memoWordIndex,
                                           !.audio = "chunking"]]
       /\ timers' = CleanupTimers(timers)
       /\ highlightTimeoutRef' = NoTimer
       /\ nextSession' = nextSession + 1
       /\ UNCHANGED <<text, speechRate, selectedVoice,
                      isPlaying, isPaused, currentWordIndex,
                      currentSentenceIndex, audioRef, utteranceRef,
                      memoWordIndex>>

\* the Play button's disabled attribute, line 582
PlayEnabled ==
  /\ ~isLoading
  /\ ~isPlaying
  /\ ~IsBlank(Texts[text])
  /\ useBrowserTTS => selectedVoice

\* handlePlay, lines 359-365
HandlePlay ==
  /\ PlayEnabled
  /\ IF useBrowserTTS
       THEN handleBrowserTTS(text, selectedVoice, speechRate, nextSession, timers)
       ELSE handleServerTTS
  /\ UNCHANGED <<useBrowserTTS, textVars>>

(***************************************************************************)
(* The user's controls.  A control acts only when it is enabled.           *)
(***************************************************************************)
\* the callbacks are memoized on [text, selectedVoice, speechRate]; a change
\* of one of them makes handleServerTTS hold the startBackendHighlighting of
\* that render, which has captured currentWordIndex
SetText(t) ==
  /\ ~isPlaying
  /\ budget.edits > 0
  /\ Spend("edits")
  /\ t # text
  /\ text' = t
  /\ memoWordIndex' = currentWordIndex
  /\ UNCHANGED <<speechRate, selectedVoice, useBrowserTTS, displayVars, refVars,
                 engineVars, nextSession, sess, timers, textVars>>

SetSpeechRate(r) ==
  /\ budget.edits > 0
  /\ Spend("edits")
  /\ r # speechRate
  /\ speechRate' = r
  /\ memoWordIndex' = currentWordIndex
  /\ UNCHANGED <<text, selectedVoice, useBrowserTTS, displayVars, refVars,
                 engineVars, nextSession, sess, timers, textVars>>

\* the voice list is rendered in browser mode; selecting its empty entry
\* sets selectedVoice to undefined
SelectVoice(v) ==
  /\ useBrowserTTS
  /\ budget.edits > 0
  /\ Spend("edits")
  /\ v # selectedVoice
  /\ selectedVoice' = v
  /\ memoWordIndex' = currentWordIndex
  /\ UNCHANGED <<text, speechRate, useBrowserTTS, displayVars, refVars,
                 engineVars, nextSession, sess, timers, textVars>>

\* speechSynthesis.onvoiceschanged is the loadVoices of the first render
\* (browser mode, no voice selected): it selects the default voice
VoicesChanged ==
  /\ ~selectedVoice
  /\ selectedVoice' = TRUE
  /\ memoWordIndex' = currentWordIndex
  /\ UNCHANGED <<text, speechRate, useBrowserTTS, displayVars, refVars,
                 engineVars, nextSession, sess, timers, textVars, budget>>

\* handleModeToggle, lines 402-410: the delayed loadVoices is the one of the
\* render of the click
HandleModeToggle ==
  /\ budget.edits > 0
  /\ Spend("edits")
  /\ useBrowserTTS' = ~useBrowserTTS
  /\ selectedVoice' = FALSE
  /\ memoWordIndex' = IF selectedVoice THEN currentWordIndex ELSE memoWordIndex
  /\ timers' = Append(timers,
       Timer("loadVoices", NoSession, LOAD_VOICES_DELAY,
             [NoArg EXCEPT !.select = useBrowserTTS /\ ~selectedVoice]))
  /\ UNCHANGED <<text, speechRate, displayVars, refVars, engineVars,
                 nextSession, sess, textVars>>

\* loadVoices, lines 67-86, run by the timer of handleModeToggle
LoadVoicesTimer(i) ==
  /\ IsNextDue(i) /\ timers[i].kind = "loadVoices"
  /\ timers' = Without(timers, i)
  /\ selectedVoice' = (selectedVoice \/ timers[i].arg.select)
  /\ memoWordIndex' = IF selectedVoice' # selectedVoice THEN currentWordIndex
                      ELSE memoWordIndex
  /\ UNCHANGED <<text, speechRate, useBrowserTTS, displayVars, refVars,
                 engineVars, nextSession, sess, textVars, budget>>

\* handlePauseResume, lines 367-395; the Pause button is disabled unless
\* isPlaying (line 592)
HandlePauseResume ==
  /\ isPlaying
  /\ IF isPaused \/ (~useBrowserTTS /\ audioRef = NoSession)
       THEN UNCHANGED budget
       ELSE budget.pauses > 0 /\ Spend("pauses")
  /\ IF useBrowserTTS
       THEN IF ~isPaused
         THEN \* browserTTS.pause()
              /\ isPaused' = TRUE
              /\ synth' = IF synth.speaking THEN [synth EXCEPT !.paused = TRUE]
                          ELSE synth
              /\ synthEvents' =
                   IF synth.speaking /\ ~synth.paused
                     THEN Append(synthEvents, [utt |-> synth.utt, name |-> "pause"])
                     ELSE synthEvents
              /\ timers' = ClearTimeout(timers, highlightTimeoutRef)
              /\ highlightTimeoutRef' = Stale(highlightTimeoutRef)
              /\ UNCHANGED sess
         ELSE \* browserTTS.resume(); startResumeHighlighting()
              /\ isPaused' = FALSE
              /\ synth' = [synth EXCEPT !.paused = FALSE]
              /\ synthEvents' =
                   IF synth.speaking /\ synth.paused
                     THEN Append(synthEvents, [utt |-> synth.utt, name |-> "resume"])
                     ELSE synthEvents
              /\ timers' = Append(timers, Timer("resumeDelay", 1, RESUME_DELAY, NoArg))
              /\ UNCHANGED <<highlightTimeoutRef, sess>>
       ELSE IF audioRef = NoSession
         THEN UNCHANGED <<isPaused, synth, synthEvents, timers,
                          highlightTimeoutRef, sess>>
       ELSE IF ~isPaused
         THEN \* audioRef.current.pause()
              /\ isPaused' = TRUE
              /\ sess' = [sess EXCEPT ![audioRef].audio =
                            IF @ = "playing" THEN "paused" ELSE @]
              /\ timers' = ClearTimeout(timers, highlightTimeoutRef)
              /\ highlightTimeoutRef' = Stale(highlightTimeoutRef)
              /\ UNCHANGED <<synth, synthEvents>>
         ELSE \* audioRef.current.play(): an ended track starts again
              /\ isPaused' = FALSE
              /\ sess' = [sess EXCEPT
                            ![audioRef].audio =
                               IF @ \in {"paused", "ended"} THEN "playing" ELSE @,
                            ![audioRef].position =
                               IF sess[audioRef].audio = "ended" THEN 0 ELSE @]
              /\ UNCHANGED <<synth, synthEvents, timers, highlightTimeoutRef>>
  /\ UNCHANGED <<configVars, isLoading, isPlaying, currentWordIndex,
                 currentSentenceIndex, error, audioRef, utteranceRef,
                 memoWordIndex, nextSession, textVars>>

\* handleStop, lines 397-400: cleanup(); resetPlaybackState().  The Stop
\* button is disabled unless isPlaying or isPaused (line 602)
HandleStop ==
  /\ isPlaying \/ isPaused
  /\ synth' = CleanupSynth
  /\ synthEvents' = CleanupEvents
  /\ sess' = CleanupSess
  /\ isPlaying' = FALSE
  /\ isPaused' = FALSE
  /\ timers' = ResetTimers(timers, highlightTimeoutRef)
  /\ highlightTimeoutRef' = NoTimer
  /\ UNCHANGED <<configVars, isLoading, currentWordIndex, currentSentenceIndex,
                 error, audioRef, utteranceRef, memoWordIndex, nextSession,
                 textVars, budget>>

(***************************************************************************)
(* The speech engine and the handlers of the utterance, lines 138-182.     *)
(* The engine delivers its events in order.                                *)
(***************************************************************************)
\* onstart, lines 155-162, and startFallbackHighlighting up to its setTimeout
UtteranceStart(s) ==
  /\ synth.utt = s /\ ~synth.speaking /\ ~synth.paused /\ synthEvents = <<>>
  /\ synth' = [synth EXCEPT !.speaking = TRUE]
  /\ isPlaying' = TRUE
  /\ isPaused' = FALSE
  /\ currentWordIndex' = 0
  /\ currentSentenceIndex' = 0
  /\ timers' = Append(timers,
       Timer("fallbackDelay", s, FALLBACK_DELAY,
             [NoArg EXCEPT !.started = sess[s].hasStartedFallback,
                           !.boundary = sess[s].boundaryWordIndex,
                           !.text = sess[s].text, !.rate = sess[s].rate,
                           !.words = TextWords[sess[s].text],
                           !.sentences = TextSentences[sess[s].text]]))
  /\ UNCHANGED <<configVars, isLoading, error, refVars, memoWordIndex,
                 synthEvents, nextSession, sess, textVars, budget>>

\* onboundary, lines 138-153
UtteranceBoundary(s, name) ==
  /\ synth.utt = s /\ synth.speaking /\ ~synth.paused /\ synthEvents = <<>>
  /\ LET t == sess[s].text
         index == sess[s].boundaryWordIndex
     IN IF name = "word" /\ index < Len(TextWords[t])
          THEN /\ currentWordIndex' = index
               /\ currentSentenceIndex' = SentenceAfter(t, index)
               /\ sess' = [sess EXCEPT ![s].boundaryWordIndex = index + 1,
                                       ![s].hasStartedFallback = FALSE]
          ELSE UNCHANGED <<currentWordIndex, currentSentenceIndex, sess>>
  /\ UNCHANGED <<configVars, isLoading, isPlaying, isPaused, error, refVars,
                 memoWordIndex, engineVars, nextSession, timers, textVars, budget>>

\* resetPlaybackState(), lines 343-356
ResetPlaybackState(tm) ==
  /\ isPlaying' = FALSE
  /\ isPaused' = FALSE
  /\ timers' = ResetTimers(tm, highlightTimeoutRef)
  /\ highlightTimeoutRef' = NoTimer

\* onend, lines 174-176
UtteranceEnd(s) ==
  /\ synth.utt = s /\ synth.speaking /\ ~synth.paused /\ synthEvents = <<>>
  /\ synth' = SynthCancel(synth)
  /\ sess' = Dropped(sess, synth)
  /\ ResetPlaybackState(timers)
  /\ UNCHANGED <<configVars, isLoading, currentWordIndex, currentSentenceIndex,
                 error, audioRef, utteranceRef, memoWordIndex, synthEvents,
                 nextSession, textVars, budget>>

\* onerror, lines 178-182
UtteranceError(s) ==
  /\ synth.utt = s /\ synthEvents = <<>>
  /\ synth' = SynthCancel(synth)
  /\ sess' = Dropped(sess, synth)
  /\ error' = "Speech synthesis failed"
  /\ ResetPlaybackState(timers)
  /\ UNCHANGED <<configVars, isLoading, currentWordIndex, currentSentenceIndex,
                 audioRef, utteranceRef, memoWordIndex, synthEvents,
                 nextSession, textVars, budget>>

\* a queued event reaches its utterance: onpause (lines 164-168), onresume
\* (lines 170-172), and for a cancelled utterance onend, onerror or nothing,
\* as the engine chooses
DeliverSynthEvent(outcome) ==
  /\ synthEvents # <<>>
  /\ synthEvents' = Tail(synthEvents)
  /\ LET name == Head(synthEvents).name
     IN IF name = "pause"
          THEN /\ outcome = "none"
               /\ timers' = ClearTimeout(timers, highlightTimeoutRef)
               /\ highlightTimeoutRef' = Stale(highlightTimeoutRef)
               /\ UNCHANGED <<isPlaying, isPaused, error>>
        ELSE IF name = "resume"
          THEN /\ outcome = "none"
               /\ timers' = Append(timers, Timer("resumeDelay", 2, RESUME_DELAY, NoArg))
               /\ UNCHANGED <<isPlaying, isPaused, error, highlightTimeoutRef>>
        ELSE IF outcome = "end"
          THEN ResetPlaybackState(timers) /\ UNCHANGED error
        ELSE IF outcome = "error"
          THEN ResetPlaybackState(timers) /\ error' = "Speech synthesis failed"
        ELSE UNCHANGED <<isPlaying, isPaused, error, timers, highlightTimeoutRef>>
  /\ UNCHANGED <<configVars, isLoading, currentWordIndex, currentSentenceIndex,
                 audioRef, utteranceRef, memoWordIndex, synth, nextSession,
                 sess, textVars, budget>>

(***************************************************************************)
(* Timers.                                                                 *)
(***************************************************************************)
\* highlightTimeoutRef.current once timer t has fired
AfterFiring(t) ==
  IF highlightTimeoutRef = RefOf(t) THEN StaleTimer ELSE highlightTimeoutRef

\* browserTTS.isSpeaking() alone
SpeakingOrPaused == synth.speaking

\* browserTTS.isSpeaking() && !browserTTS.isPaused()
Speaking == synth.speaking /\ ~synth.paused

\* fallbackHighlighting, lines 263-287
FallbackTimer(i) ==
  /\ IsNextDue(i) /\ timers[i].kind \in FallbackKinds
  /\ LET t == timers[i]
         s == t.sess
         nWords == Len(t.arg.words)
         expectedWordIndex == ExpectedWordIndex(t.arg.elapsed, t.arg.rate)
         started == t.arg.started \/ t.arg.boundary = 0
         update == /\ Speaking
                   /\ started
                   /\ expectedWordIndex < nWords
                   /\ expectedWordIndex # t.arg.index
         arg == [t.arg EXCEPT !.started = started,
                              !.index = IF update THEN expectedWordIndex ELSE @]
     IN /\ currentWordIndex' =
             IF update THEN expectedWordIndex ELSE currentWordIndex
        /\ currentSentenceIndex' =
             IF update THEN SentenceOf(t.arg.sentences, t.arg.words, expectedWordIndex)
             ELSE currentSentenceIndex
        /\ timers' =
             IF Speaking
               THEN Append(Without(timers, i),
                           Timer("fallbackTick", s, HIGHLIGHT_UPDATE_INTERVAL, arg))
               ELSE Without(timers, i)
        /\ highlightTimeoutRef' =
             IF Speaking THEN TimerRef("fallbackTick", s) ELSE AfterFiring(t)
  /\ UNCHANGED <<configVars, isLoading, isPlaying, isPaused, error, audioRef,
                 utteranceRef, memoWordIndex, engineVars, nextSession, sess,
                 textVars, budget>>

\* resumeHighlighting, lines 332-336; t.sess tells the chain of
\* handlePauseResume from the chain of onresume
ResumeTimer(i) ==
  /\ IsNextDue(i) /\ timers[i].kind \in ResumeKinds
  /\ timers' =
       IF Speaking
         THEN Append(Without(timers, i),
                     Timer("resumeTick", timers[i].sess, HIGHLIGHT_UPDATE_INTERVAL, NoArg))
         ELSE Without(timers, i)
  /\ highlightTimeoutRef' =
       IF Speaking THEN TimerRef("resumeTick", timers[i].sess)
       ELSE AfterFiring(timers[i])
  /\ UNCHANGED <<configVars, displayVars, audioRef, utteranceRef, memoWordIndex,
                 engineVars, nextSession, sess, textVars, budget>>

\* the delayed reset of resetPlaybackState, lines 347-350
ResetTimer(i) ==
  /\ IsNextDue(i) /\ timers[i].kind = "reset"
  /\ currentWordIndex' = -1
  /\ currentSentenceIndex' = -1
  /\ timers' = Without(timers, i)
  /\ UNCHANGED <<configVars, isLoading, isPlaying, isPaused, error, refVars,
                 memoWordIndex, engineVars, nextSession, sess, textVars, budget>>

\* the time a fallback loop has measured since its startTime; past the last
\* word its ticks change nothing more
Elapse(t) ==
  IF /\ t.kind \in FallbackKinds
     /\ ExpectedWordIndex(t.arg.elapsed, t.arg.rate) < Len(t.arg.words)
    THEN t.arg.elapsed + HIGHLIGHT_UPDATE_INTERVAL
    ELSE t.arg.elapsed

\* one polling interval passes; a timer that is due fires first
Advance ==
  /\ timers # <<>>
  /\ \A i \in 1..Len(timers) : timers[i].left > 0
  /\ timers' = [i \in 1..Len(timers) |->
                  [timers[i] EXCEPT !.left = @ - HIGHLIGHT_UPDATE_INTERVAL,
                                    !.arg.elapsed = Elapse(timers[i])]]
  /\ UNCHANGED <<configVars, displayVars, refVars, memoWordIndex, engineVars,
                 nextSession, sess, textVars, budget>>

(***************************************************************************)
(* Server mode: the rest of handleServerTTS, lines 198-252, the Audio and  *)
(* startBackendHighlighting.                                               *)
(***************************************************************************)
\* the catch block, lines 242-252
ServerFail(s) ==
  /\ isLoading' = FALSE
  /\ error' = "Server TTS failed, trying browser TTS..."
  /\ sess' = [sess EXCEPT ![s] = NoSessionData]
  /\ timers' = Append(timers,
       Timer("serverFallback", s, SERVER_FALLBACK_DELAY,
             [NoArg EXCEPT !.text = sess[s].text, !.rate = sess[s].rate,
                           !.voice = sess[s].voice]))
  /\ UNCHANGED <<configVars, isPlaying, isPaused, currentWordIndex,
                 currentSentenceIndex, refVars, memoWordIndex, engineVars,
                 nextSession, textVars, budget>>

\* await ttsService.getChunkedText, lines 200-205
ChunkedText(s, ok, hasChunks) ==
  /\ sess[s].audio = "chunking"
  /\ IF ok
       THEN /\ sess' = [sess EXCEPT ![s].audio = "synthesizing",
                                    ![s].hasChunks = hasChunks]
            /\ UNCHANGED <<configVars, displayVars, refVars, memoWordIndex,
                           engineVars, nextSession, timers, textVars, budget>>
       ELSE ServerFail(s)

\* await ttsService.textToSpeech and new Audio(audioUrl), lines 208-216
TextToSpeech(s, ok) ==
  /\ sess[s].audio = "synthesizing"
  /\ IF ok
       THEN /\ sess' = [sess EXCEPT ![s].audio = "loading"]
            /\ audioRef' = s
            /\ UNCHANGED <<configVars, displayVars, utteranceRef,
                           highlightTimeoutRef, memoWordIndex, engineVars,
                           nextSession, timers, textVars, budget>>
       ELSE ServerFail(s)

\* smoothHighlighting of session s, lines 299-323, on the sessions se and
\* the timers tm, where ref is highlightTimeoutRef.current; it reads the
\* Audio that audioRef names when it runs
SmoothHighlighting(s, arg, se, tm, ref) ==
  LET t == arg.text
      nWords == Len(TextWords[t])
      expectedWordIndex == ProgressWordIndex(se[audioRef].position, nWords)
      update == expectedWordIndex < nWords /\ expectedWordIndex # arg.memo
  IN IF audioRef = NoSession \/ se[audioRef].audio # "playing"
       THEN /\ UNCHANGED <<currentWordIndex, currentSentenceIndex>>
            /\ timers' = tm
            /\ highlightTimeoutRef' = ref
       ELSE /\ currentWordIndex' =
                 IF update THEN expectedWordIndex ELSE currentWordIndex
            /\ currentSentenceIndex' =
                 IF update THEN SentenceAfter(t, expectedWordIndex)
                 ELSE currentSentenceIndex
            /\ timers' =
                 IF expectedWordIndex < nWords
                   THEN Append(tm, Timer("smoothTick", s, HIGHLIGHT_UPDATE_INTERVAL, arg))
                   ELSE tm
            /\ highlightTimeoutRef' =
                 IF expectedWordIndex < nWords THEN TimerRef("smoothTick", s)
                 ELSE ref

\* audio.onloadeddata, lines 218-227
AudioLoaded(s) ==
  /\ sess[s].audio = "loading"
  /\ isLoading' = FALSE
  /\ isPlaying' = TRUE
  /\ isPaused' = FALSE
  /\ sess' = [sess EXCEPT ![s] = [NoSessionData EXCEPT !.audio = "playing"]]
  /\ IF sess[s].hasChunks
       THEN SmoothHighlighting(s, [NoArg EXCEPT !.text = sess[s].text,
                                                !.memo = sess[s].memo],
                               sess', timers, highlightTimeoutRef)
       ELSE UNCHANGED <<currentWordIndex, currentSentenceIndex, timers,
                        highlightTimeoutRef>>
  /\ UNCHANGED <<configVars, error, audioRef, utteranceRef, memoWordIndex,
                 engineVars, nextSession, textVars, budget>>

\* the timer of smoothHighlighting, line 321
SmoothTimer(i) ==
  /\ IsNextDue(i) /\ timers[i].kind = "smoothTick"
  /\ SmoothHighlighting(timers[i].sess, timers[i].arg, sess, Without(timers, i),
                        AfterFiring(timers[i]))
  /\ UNCHANGED <<configVars, isLoading, isPlaying, isPaused, error, audioRef,
                 utteranceRef, memoWordIndex, engineVars, nextSession, sess,
                 textVars, budget>>

\* the Audio plays on: currentTime grows
AudioProgress(s) ==
  /\ sess[s].audio = "playing"
  /\ sess[s].position < AudioSteps
  /\ sess' = [sess EXCEPT ![s].position = @ + 1]
  /\ UNCHANGED <<configVars, displayVars, refVars, memoWordIndex, engineVars,
                 nextSession, timers, textVars, budget>>

\* audio.onended, lines 229-232
AudioEnded(s) ==
  /\ sess[s].audio = "playing"
  /\ sess[s].position = AudioSteps
  /\ sess' = [sess EXCEPT ![s] = [NoSessionData EXCEPT !.audio = "ended"]]
  /\ ResetPlaybackState(timers)
  /\ UNCHANGED <<configVars, isLoading, currentWordIndex, currentSentenceIndex,
                 error, audioRef, utteranceRef, memoWordIndex, engineVars,
                 nextSession, textVars, budget>>

\* audio.onerror, lines 234-239: the track cannot be loaded or decoded, or
\* cleanup() has emptied its src
AudioError(s) ==
  /\ \/ /\ sess[s].audio \in {"loading", "playing", "paused"}
        /\ sess' = [sess EXCEPT ![s] = [NoSessionData EXCEPT !.audio = "failed"]]
     \/ /\ sess[s].srcError
        /\ sess' = [sess EXCEPT ![s].srcError = FALSE]
  /\ isLoading' = FALSE
  /\ error' = "Audio playback failed"
  /\ ResetPlaybackState(timers)
  /\ UNCHANGED <<configVars, currentWordIndex, currentSentenceIndex, audioRef,
                 utteranceRef, memoWordIndex, engineVars, nextSession,
                 textVars, budget>>

\* the timer of the catch block, lines 248-251: handleBrowserTTS as the
\* failed request held it
ServerFallbackTimer(i) ==
  /\ IsNextDue(i) /\ timers[i].kind = "serverFallback"
  /\ useBrowserTTS' = TRUE
  /\ LET s == timers[i].sess
         arg == timers[i].arg
     IN handleBrowserTTS(arg.text, arg.voice, arg.rate, s, Without(timers, i))
  /\ UNCHANGED textVars

(***************************************************************************)
(* The component.                                                          *)
(***************************************************************************)
\* the component is mounted with the given budget
Mounted(b) ==
  /\ PlayInit(b)
  /\ input = <<>>
  /\ pc = "input"
  /\ tokens = NoResult
  /\ validation = NoValidation
  /\ readability = NoReadability
  /\ simplified = NoResult
  /\ resimplified = NoResult
  /\ segments = NoResult
  /\ spans = NoResult

Init == Mounted(Budget(MaxSessions, MaxPauses, MaxEdits))

Next ==
  \/ \E t \in TextIds : SetText(t)
  \/ \E r \in Rates : SetSpeechRate(r)
  \/ \E v \in BOOLEAN : SelectVoice(v)
  \/ VoicesChanged
  \/ HandleModeToggle
  \/ HandlePlay
  \/ HandlePauseResume
  \/ HandleStop
  \/ \E s \in SessionIds : UtteranceStart(s)
  \/ \E s \in SessionIds : \E name \in {"word", "sentence"} : UtteranceBoundary(s, name)
  \/ \E s \in SessionIds : UtteranceEnd(s)
  \/ \E s \in SessionIds : UtteranceError(s)
  \/ \E outcome \in {"none", "end", "error"} : DeliverSynthEvent(outcome)
  \/ \E s \in SessionIds : \E ok, hasChunks \in BOOLEAN : ChunkedText(s, ok, hasChunks)
  \/ \E s \in SessionIds : \E ok \in BOOLEAN : TextToSpeech(s, ok)
  \/ \E s \in SessionIds : AudioLoaded(s)
  \/ \E s \in SessionIds : AudioProgress(s)
  \/ \E s \in SessionIds : AudioEnded(s)
  \/ \E s \in SessionIds : AudioError(s)
  \/ \E i \in 1..Len(timers) : LoadVoicesTimer(i)
  \/ \E i \in 1..Len(timers) : FallbackTimer(i)
  \/ \E i \in 1..Len(timers) : ResumeTimer(i)
  \/ \E i \in 1..Len(timers) : ResetTimer(i)
  \/ \E i \in 1..Len(timers) : SmoothTimer(i)
  \/ \E i \in 1..Len(timers) : ServerFallbackTimer(i)
  \/ Advance

vars == <<textVars, playVars>>

Spec == Init /\ [][Next]_vars

\* one browser session, with the default text, rate and mode
BrowserSessions == 1

NextBrowser ==
  \/ VoicesChanged
  \/ HandlePlay
  \/ HandlePauseResume
  \/ HandleStop
  \/ \E s \in SessionIds : UtteranceStart(s)
  \/ \E s \in SessionIds : \E name \in {"word", "sentence"} : UtteranceBoundary(s, name)
  \/ \E s \in SessionIds : UtteranceEnd(s)
  \/ \E s \in SessionIds : UtteranceError(s)
  \/ \E outcome \in {"none", "end", "error"} : DeliverSynthEvent(outcome)
  \/ \E i \in 1..Len(timers) : FallbackTimer(i)
  \/ \E i \in 1..Len(timers) : ResumeTimer(i)
  \/ \E i \in 1..Len(timers) : ResetTimer(i)
  \/ Advance

SpecBrowser == Mounted(Budget(BrowserSessions, MaxPauses, 0)) /\ [][NextBrowser]_vars

\* a timer that is due runs, the synthesizer's notices are delivered and
\* time passes; when the engine speaks, ends or fails is left open
BrowserTimerStep ==
  \E i \in 1..Len(timers) : FallbackTimer(i) \/ ResumeTimer(i) \/ ResetTimer(i)

SpecBrowserFair ==
  /\ SpecBrowser
  /\ WF_vars(BrowserTimerStep)
  /\ WF_vars(\E outcome \in {"none", "end", "error"} : DeliverSynthEvent(outcome))
  /\ WF_vars(Advance)

\* browser sessions one after the other, without pauses
NextSessions ==
  \/ VoicesChanged
  \/ HandlePlay
  \/ HandleStop
  \/ \E s \in SessionIds : UtteranceStart(s)
  \/ \E s \in SessionIds : \E name \in {"word", "sentence"} : UtteranceBoundary(s, name)
  \/ \E s \in SessionIds : UtteranceEnd(s)
  \/ \E s \in SessionIds : UtteranceError(s)
  \/ \E outcome \in {"none", "end", "error"} : DeliverSynthEvent(outcome)
  \/ \E i \in 1..Len(timers) : FallbackTimer(i)
  \/ \E i \in 1..Len(timers) : ResetTimer(i)
  \/ Advance

SpecSessions == Mounted(Budget(MaxSessions, 0, 0)) /\ [][NextSessions]_vars

\* play requests in both modes, with every text
NextRequests ==
  \/ \E t \in TextIds : SetText(t)
  \/ \E r \in Rates : SetSpeechRate(r)
  \/ \E v \in BOOLEAN : SelectVoice(v)
  \/ VoicesChanged
  \/ HandleModeToggle
  \/ HandlePlay
  \/ HandleStop
  \/ \E s \in SessionIds : UtteranceStart(s)
  \/ \E s \in SessionIds : \E name \in {"word", "sentence"} : UtteranceBoundary(s, name)
  \/ \E s \in SessionIds : UtteranceEnd(s)
  \/ \E s \in SessionIds : UtteranceError(s)
  \/ \E outcome \in {"none", "end", "error"} : DeliverSynthEvent(outcome)
  \/ \E s \in SessionIds : \E ok, hasChunks \in BOOLEAN : ChunkedText(s, ok, hasChunks)
  \/ \E s \in SessionIds : \E ok \in BOOLEAN : TextToSpeech(s, ok)
  \/ \E s \in SessionIds : AudioLoaded(s)
  \/ \E s \in SessionIds : AudioProgress(s)
  \/ \E s \in SessionIds : AudioEnded(s)
  \/ \E s \in SessionIds : AudioError(s)
  \/ \E i \in 1..Len(timers) : LoadVoicesTimer(i)
  \/ \E i \in 1..Len(timers) : FallbackTimer(i)
  \/ \E i \in 1..Len(timers) : ResetTimer(i)
  \/ \E i \in 1..Len(timers) : SmoothTimer(i)
  \/ \E i \in 1..Len(timers) : ServerFallbackTimer(i)
  \/ Advance

SpecRequests == Mounted(Budget(BrowserSessions, 0, MaxEdits)) /\ [][NextRequests]_vars

\* one session in either mode, paused and resumed
MaxToggles == 1

NextPauses ==
  \/ VoicesChanged
  \/ HandleModeToggle
  \/ HandlePlay
  \/ HandlePauseResume
  \/ HandleStop
  \/ \E s \in SessionIds : UtteranceStart(s)
  \/ \E s \in SessionIds : \E name \in {"word", "sentence"} : UtteranceBoundary(s, name)
  \/ \E s \in SessionIds : UtteranceEnd(s)
  \/ \E s \in SessionIds : UtteranceError(s)
  \/ \E outcome \in {"none", "end", "error"} : DeliverSynthEvent(outcome)
  \/ \E s \in SessionIds : \E ok, hasChunks \in BOOLEAN : ChunkedText(s, ok, hasChunks)
  \/ \E s \in SessionIds : \E ok \in BOOLEAN : TextToSpeech(s, ok)
  \/ \E s \in SessionIds : AudioLoaded(s)
  \/ \E s \in SessionIds : AudioProgress(s)
  \/ \E s \in SessionIds : AudioEnded(s)
  \/ \E s \in SessionIds : AudioError(s)
  \/ \E i \in 1..Len(timers) : LoadVoicesTimer(i)
  \/ \E i \in 1..Len(timers) : FallbackTimer(i)
  \/ \E i \in 1..Len(timers) : ResumeTimer(i)
  \/ \E i \in 1..Len(timers) : ResetTimer(i)
  \/ \E i \in 1..Len(timers) : SmoothTimer(i)
  \/ \E i \in 1..Len(timers) : ServerFallbackTimer(i)
  \/ Advance

SpecPauses == Mounted(Budget(BrowserSessions, MaxPauses, MaxToggles)) /\ [][NextPauses]_vars

SpecTokenize == TextInit(TokenizeInputs) /\ [][TokenizeText]_vars

SpecValidate == TextInit(ValidateInputs) /\ [][ValidateText]_vars

SpecReadability == TextInit(ReadabilityInputs) /\ [][CalculateReadabilityScore]_vars

SpecStructure == TextInit(StructureInputs) /\ [][SimplifyStructure]_vars

SpecSentences == TextInit(SentenceInputs) /\ [][TokenizeSentences]_vars

NextVocabulary == SimplifyVocabulary \/ SimplifyVocabularyAgain

SpecVocabulary == TextInit(VocabularyInputs) /\ [][NextVocabulary]_vars


(***************************************************************************)
(* Claims about the pure functions.                                        *)
(***************************************************************************)
\* C1: tokenizer round trip: concatenating token.text of the tokens that
\* tokenizeText returns, in order, reproduces the input exactly, also for
\* inputs holding characters outside the tokenizer's classes.
C1_RoundTrip ==
  pc = "tokenizeText" => TokenTexts(tokens) = input

\* C2: calculateReadabilityScore guards its denominators: with zero
\* sentences or zero words the score is 0 and the level is Easy, and
\* totalWords and totalSentences report the counts.
C2_ZeroDenominatorGuard ==
  (pc = "calculateReadabilityScore"
     /\ (readability.totalSentences = 0 \/ readability.totalWords = 0))
  => /\ IsFinite(readability.score)
     /\ readability.score.n = 0
     /\ readability.level = "Easy"
     /\ readability.totalWords = Len(ReadabilityWords(input))
     /\ readability.totalSentences = Len(ReadabilitySentences(input))

\* C3: vocabulary simplification is idempotent: simplifying the simplified
\* text again changes nothing.
C3_Idempotent ==
  pc = "simplifyVocabularyTwice" => resimplified = simplified

\* C8: validateText classifies every string: blank text is rejected as
\* empty; non-blank text of more than 10,000 characters is rejected as too
\* long; non-blank text of at most 10,000 characters is valid.
C8_ValidateClassifies ==
  pc = "validateText" =>
    LET blank == \A i \in 1..Len(input) : input[i] \in WhiteSpace
    IN /\ blank =>
            validation = [isValid |-> FALSE, error |-> "Text cannot be empty"]
       /\ (~blank /\ Len(input) > 10000) =>
            validation = [isValid |-> FALSE,
                          error |-> "Text too long (max 10,000 characters)"]
       /\ (~blank /\ Len(input) <= 10000) =>
            validation = [isValid |-> TRUE, error |-> "null"]

\* a non-blank text of exactly 10,000 characters has been validated
C8_Witness ==
  /\ pc = "validateText"
  /\ Len(input) = 10000
  /\ ~IsBlank(input)
  /\ validation.isValid

\* C10: after simplifyVocabulary no key of the vocabulary table occurs in
\* the output as a whole word (ignoring case); the scenario text yields a
\* text with "use", "to" and "help" and without "utilize" and "facilitate".
C10_NoVocabularyWordLeft ==
  pc = "simplifyVocabulary" =>
    /\ ~HasVocabularyWord(simplified)
    /\ Includes(input, <<"f","a","c","i","l","i","t","a","t","e">>) =>
         /\ IncludesWord(simplified, <<"u","s","e">>)
         /\ IncludesWord(simplified, <<"t","o">>)
         /\ IncludesWord(simplified, <<"h","e","l","p">>)
         /\ ~Includes(simplified, <<"u","t","i","l","i","z","e">>)
         /\ ~Includes(simplified, <<"f","a","c","i","l","i","t","a","t","e">>)

\* the scenario text has been simplified
C10_Witness ==
  /\ pc = "simplifyVocabulary"
  /\ Includes(input, <<"f","a","c","i","l","i","t","a","t","e">>)
  /\ simplified = <<"u","s","e"," ","t","h","i","s"," ","t","o"," ",
                    "h","e","l","p"," ","l","e","a","r","n","i","n","g",".">>

(***************************************************************************)
(* Claims about playback.                                                  *)
(***************************************************************************)
\* C4: highlight monotonic advance: in a browser session that has started,
\* N word-boundary events, interleaved in any way with fallback polling
\* ticks, take currentWordIndex through 0, 1, ..., N-1 in that order: after
\* N >= 1 boundary events of the session currentWordIndex is N-1.
C4_MonotonicAdvance ==
  \A s \in SessionIds :
    (synth.utt = s /\ synth.speaking /\ sess[s].boundaryWordIndex >= 1)
    => currentWordIndex = sess[s].boundaryWordIndex - 1

\* C5: reconciliation safety: a fallback tick of a browser session never
\* sets currentWordIndex to a value lower than the index set by the most
\* recent boundary event of that session.
C5_ReconciliationSafety ==
  [][\A i \in 1..Len(timers) :
       (/\ FallbackTimer(i)
        /\ synth.utt = timers[i].sess
        /\ sess[timers[i].sess].boundaryWordIndex >= 1)
       => currentWordIndex' >= sess[timers[i].sess].boundaryWordIndex - 1]_vars

\* C6: highlight idle reset: when a stop request issued from Playing or
\* Paused returns, HighlightState is {-1, -1} and no polling tick,
\* startup-delay tick or resume tick is pending.
C6_StopResetsHighlight ==
  [][HandleStop =>
       /\ currentWordIndex' = -1
       /\ currentSentenceIndex' = -1
       /\ \A i \in 1..Len(timers') :
            timers'[i].kind \notin FallbackKinds \cup ResumeKinds \cup {"smoothTick"}]_vars

\* C7: single active session: at most one session is Starting, Playing or
\* Paused, and a play request accepted while a session is active leaves
\* HighlightState at {-1, -1} and none of the old session's timers pending
\* when the new session begins.
C7_SingleActiveSession ==
  /\ [](Cardinality({s \in SessionIds :
                       \/ synth.utt = s
                       \/ sess[s].audio \in {"chunking", "synthesizing",
                                             "loading", "playing", "paused"}})
          <= 1)
  /\ [][\A s \in SessionIds :
          (/\ \/ synth.utt = s
              \/ sess[s].audio \in {"chunking", "synthesizing",
                                    "loading", "playing", "paused"}
           /\ HandlePlay
           /\ nextSession' # nextSession)
          => /\ currentWordIndex' = -1
             /\ currentSentenceIndex' = -1
             /\ \A i \in 1..Len(timers') : timers'[i].sess # s]_vars

\* C9: a play request whose text fails validation sets the error message
\* and changes nothing else, in browser mode and in server mode: the
\* synthesizer, the Audio, the timers, isPlaying, isPaused and HighlightState
\* keep their values.
C9_InvalidPlayChangesOnlyError ==
  [][(HandlePlay /\ ~validateText(Texts[text]).isValid)
     => /\ error' = validateText(Texts[text]).error
        /\ UNCHANGED <<text, speechRate, selectedVoice, useBrowserTTS,
                       isLoading, isPlaying, isPaused, currentWordIndex,
                       currentSentenceIndex, audioRef, utteranceRef,
                       highlightTimeoutRef, memoWordIndex, synth, synthEvents,
                       nextSession, sess, timers>>]_vars

\* in server mode a play request for the text that is too long has been
\* refused while an utterance was waiting for the engine
C9_Witness ==
  /\ error = ERR_TOO_LONG
  /\ ~useBrowserTTS
  /\ synth.utt # NoSession
  /\ ~isLoading

(***************************************************************************)
(* Claims about simplifyStructure.                                         *)
(***************************************************************************)
\* the text is one sentence: words, then at most one terminator run
IsSingleSentence(str) ==
  LET raw == SplitCaptureFrom(str, 0, TerminatorChars)
  IN /\ ~IsBlank(raw[1])
     /\ Len(raw) \in {1, 3}
     /\ Len(raw) = 3 => raw[3] = <<>>

\* the words of the first sentence of the text
FirstSentenceWords(str) ==
  StructureWords(SplitCaptureFrom(str, 0, TerminatorChars)[1])

\* the word indices after index 5 that hold a listed conjunction
ConjunctionIndices(words) ==
  {i \in 6..(Len(words) - 1) : LowerCase(words[i + 1]) \in conjunctions}

\* the words of a segment, without the punctuation that ends it
SegmentWords(segment) == StructureWords(Split(segment, TerminatorChars)[1])

\* C11: midpoint fallback: a sentence of more than 25 words is emitted as
\* at least two segments, and when no conjunction after word index 5 can
\* be a split point (none occurs, or each is less than 8 words from the
\* start) the two segments are the halves by word count.
C11_MidpointFallback ==
  (pc = "simplifyStructure" /\ IsSingleSentence(input)
     /\ Len(FirstSentenceWords(input)) > 25)
  => LET words == FirstSentenceWords(input)
     IN /\ Len(segments) >= 2
        /\ (\A i \in ConjunctionIndices(words) : i < 8)
           => /\ Len(segments) = 2
              /\ SegmentWords(segments[1]) = SubSeq(words, 1, Len(words) \div 2)
              /\ SegmentWords(segments[2])
                   = SubSeq(words, Len(words) \div 2 + 1, Len(words))

\* the split points of the rule "at least 8 words from the previous split"
RECURSIVE ExpectedSplits(_, _, _)
ExpectedSplits(words, from, lastSplit) ==
  LET later == {i \in ConjunctionIndices(words) : i >= from}
  IN IF later = {} THEN <<>>
     ELSE LET i == CHOOSE k \in later : \A j \in later : k <= j
          IN IF i - lastSplit >= 8
               THEN <<i>> \o ExpectedSplits(words, i + 1, i)
               ELSE ExpectedSplits(words, i + 1, lastSplit)

\* C12: conjunction split rule: in a sentence of more than 25 words the
\* splits are exactly before the conjunctions after word index 5 that are
\* at least 8 words after the previous split point (initially 0).
C12_ConjunctionSplitRule ==
  (pc = "simplifyStructure" /\ IsSingleSentence(input)
     /\ Len(FirstSentenceWords(input)) > 25
     /\ ExpectedSplits(FirstSentenceWords(input), 0, 0) # <<>>)
  => LET words == FirstSentenceWords(input)
         splits == ExpectedSplits(words, 0, 0)
         bounds == <<0>> \o splits \o <<Len(words)>>
     IN /\ Len(segments) = Len(splits) + 1
        /\ \A k \in 1..Len(segments) :
             SegmentWords(segments[k]) = SubSeq(words, bounds[k] + 1, bounds[k + 1])

\* C13: a single sentence of n > 25 words with no listed conjunction after
\* word index 5 is emitted as exactly two segments: the first floor(n/2)
\* words and the remaining words, in the original order, so that the word
\* counts differ by at most 1.
C13_MidpointHalves ==
  (pc = "simplifyStructure" /\ IsSingleSentence(input)
     /\ Len(FirstSentenceWords(input)) > 25
     /\ ConjunctionIndices(FirstSentenceWords(input)) = {})
  => LET words == FirstSentenceWords(input)
         n == Len(words)
     IN /\ Len(segments) = 2
        /\ SegmentWords(segments[1]) = SubSeq(words, 1, n \div 2)
        /\ SegmentWords(segments[2]) = SubSeq(words, n \div 2 + 1, n)
        /\ Len(SegmentWords(segments[2])) - Len(SegmentWords(segments[1])) \in {0, 1}

\* a sentence of 30 words without a conjunction after word index 5 has
\* been split into two segments
C13_Witness ==
  /\ pc = "simplifyStructure"
  /\ IsSingleSentence(input)
  /\ Len(FirstSentenceWords(input)) = 30
  /\ ConjunctionIndices(FirstSentenceWords(input)) = {}
  /\ Len(segments) = 2
  /\ Len(SegmentWords(segments[1])) = 15

\* the sentences of a text with the terminator run that follows each: the
\* non-blank pieces between terminator runs
RECURSIVE SentencePairsFrom(_, _)
SentencePairsFrom(raw, k) ==
  IF k > Len(raw) THEN <<>>
  ELSE (IF IsBlank(raw[k]) THEN <<>>
        ELSE <<[sentence |-> Trim(raw[k]),
                terminator |-> IF k < Len(raw) THEN raw[k + 1] ELSE <<>>]>>)
         \o SentencePairsFrom(raw, k + 2)

SentencePairs(str) == SentencePairsFrom(SplitCaptureFrom(str, 0, TerminatorChars), 1)

\* the segment is text without a terminator, followed by the run; a
\* sentence without a terminator run may be given a full stop
EndsWithRun(segment, run) ==
  LET ending == IF run = <<>> THEN {<<>>, <<".">>} ELSE {run}
  IN \E e \in ending :
       /\ Len(segment) > Len(e)
       /\ SubSeq(segment, Len(segment) - Len(e) + 1, Len(segment)) = e
       /\ \A i \in 1..(Len(segment) - Len(e)) : segment[i] \notin TerminatorChars
       /\ segment[1] \notin WhiteSpace

\* C14: terminator preservation: every sentence is paired with its own
\* terminator run, also when the text begins with a terminator run or has
\* two runs separated by white space.  Sentences of at most 25 words are
\* emitted as the trimmed sentence followed by its run; of the segments of
\* a text with one sentence the last ends with that run and the others
\* with a full stop.
C14_TerminatorPreserved ==
  pc = "simplifyStructure" =>
    LET pairs == SentencePairs(input)
    IN /\ (\A k \in 1..Len(pairs) :
             Len(StructureWords(pairs[k].sentence)) <= 25)
          => /\ Len(segments) = Len(pairs)
             /\ \A k \in 1..Len(pairs) :
                  /\ EndsWithRun(segments[k], pairs[k].terminator)
                  /\ SubSeq(segments[k], 1, Len(pairs[k].sentence))
                       = pairs[k].sentence
       /\ Len(pairs) = 1
          => /\ Len(segments) >= 1
             /\ EndsWithRun(segments[Len(segments)], pairs[1].terminator)
             /\ \A k \in 1..(Len(segments) - 1) : EndsWithRun(segments[k], <<".">>)

(***************************************************************************)
(* Claims about the sentence spans and the token spans.                    *)
(***************************************************************************)
\* the characters of a string that are not white space, in order
NonWhiteSpace(str) == SelectSeq(str, LAMBDA c : c \notin WhiteSpace)

\* C15: sentence coverage: the spans of tokenizeSentences are in
\* increasing start order and do not overlap, each text is the trimmed
\* slice of its span, and the texts together hold every character of the
\* input that is not white space exactly once, a trailing fragment without
\* terminal punctuation included.
C15_SentenceCoverage ==
  pc = "tokenizeSentences" =>
    /\ \A k \in 1..Len(spans) :
         /\ 0 <= spans[k].start
         /\ spans[k].start < spans[k].end
         /\ spans[k].end <= Len(input)
         /\ spans[k].text = Trim(SubSeq(input, spans[k].start + 1, spans[k].end))
    /\ \A k \in 1..(Len(spans) - 1) : spans[k].end <= spans[k + 1].start
    /\ Concat([k \in 1..Len(spans) |-> NonWhiteSpace(spans[k].text)])
         = NonWhiteSpace(input)

\* two spans have been returned, the second a fragment without terminal
\* punctuation that ends the text
C15_Witness ==
  /\ pc = "tokenizeSentences"
  /\ Len(spans) = 2
  /\ spans[2].end = Len(input)
  /\ input[Len(input)] = "a"

\* C16: token span invariant: every token of tokenizeText has start < end
\* and text = input.slice(start, end); the first token starts at 0, the
\* last ends at input.length, and consecutive tokens are contiguous.
C16_TokenSpans ==
  (pc = "tokenizeText" /\ input # <<>>) =>
    /\ tokens # <<>>
    /\ \A k \in 1..Len(tokens) :
         /\ tokens[k].start < tokens[k].end
         /\ tokens[k].text = SubSeq(input, tokens[k].start + 1, tokens[k].end)
    /\ tokens[1].start = 0
    /\ tokens[Len(tokens)].end = Len(input)
    /\ \A k \in 1..(Len(tokens) - 1) : tokens[k].end = tokens[k + 1].start

(***************************************************************************)
(* Claims about pause and resume, fallback and stale timers.               *)
(***************************************************************************)
\* a browser session driven by polling plays: the engine speaks and has
\* sent no boundary event
PollingContinues ==
  /\ useBrowserTTS /\ isPlaying /\ ~isPaused
  /\ synth.utt # NoSession /\ Speaking
  /\ sess[synth.utt].boundaryWordIndex = 0

\* C17: resume keeps highlighting alive: after a pause and a resume of a
\* browser session driven by polling, while playback continues and
\* unspoken words remain, currentWordIndex eventually advances beyond the
\* value it had.
C17_ResumeKeepsHighlighting ==
  \A n \in -1..(Len(TextWords[DEFAULT_TEXT]) - 2) :
    []((/\ budget.pauses < MaxPauses
        /\ PollingContinues
        /\ text = DEFAULT_TEXT
        /\ currentWordIndex = n)
       => <>(currentWordIndex > n \/ ~PollingContinues))

\* C18: server-to-browser fallback: when the backend has failed, the
\* fallback timer switches to browser mode and starts a browser session
\* for the same text (the utterance is handed to the engine, whose start
\* signal makes it Playing), also when server mode was entered through
\* the mode toggle, which clears the selected voice.
C18_ServerFallbackStartsBrowser ==
  [][\A i \in 1..Len(timers) :
       ServerFallbackTimer(i)
       => /\ useBrowserTTS'
          /\ synth'.utt = timers[i].sess
          /\ sess'[timers[i].sess].text = timers[i].arg.text
          /\ utteranceRef' = timers[i].sess]_vars

\* C19: stale-tick safety: a fallback tick of a session that is no longer
\* the one the engine plays (it was stopped, has ended or has failed)
\* leaves HighlightState alone and schedules no further tick, also when
\* the session was stopped within the startup delay and a new session
\* speaks when the tick runs.
C19_StaleTickSafety ==
  [][\A i \in 1..Len(timers) :
       (FallbackTimer(i) /\ synth.utt # timers[i].sess)
       => /\ currentWordIndex' = currentWordIndex
          /\ currentSentenceIndex' = currentSentenceIndex
          /\ timers' = Without(timers, i)]_vars

\* C20: boundary priority over fallback: when at least one boundary event
\* of the session has arrived before its first fallback tick (within the
\* startup delay), that tick does not set currentWordIndex from its time
\* estimate.
C20_BoundaryPriority ==
  [][\A i \in 1..Len(timers) :
       (/\ FallbackTimer(i)
        /\ timers[i].kind = "fallbackDelay"
        /\ synth.utt = timers[i].sess
        /\ sess[timers[i].sess].boundaryWordIndex >= 1)
       => /\ currentWordIndex' = currentWordIndex
          /\ currentSentenceIndex' = currentSentenceIndex]_vars

(***************************************************************************)
(* Claims about token types and phrase replacement.                        *)
(***************************************************************************)
\* C29: token typing: every token that tokenizeText labels 'whitespace'
\* consists only of whitespace characters, the token pushed for the text
\* that remains after the last match included.
C29_WhitespaceTokens ==
  pc = "tokenizeText" =>
    \A k \in 1..Len(tokens) :
      tokens[k].type = "whitespace" =>
        \A c \in 1..Len(tokens[k].text) : tokens[k].text[c] \in WhiteSpace

\* C30: phrase replacement respects word boundaries: a text in which no
\* key of the phrase table occurs as a sequence of whole words comes out of
\* simplifyVocabulary with only its vocabulary words replaced.
C30_PhraseWordBoundaries ==
  pc = "simplifyVocabulary" =>
    ((\A e \in 1..Len(sortedPhrases) :
        NextPatternMatch(input, 0, Key(sortedPhrases[e]), TRUE) = -1)
     => simplified = ReplaceWords(input))

(***************************************************************************)
(* Claims about pauses, ends and failures of a session.                    *)
(***************************************************************************)
\* C21: no polling advance while paused: a fallback tick that runs while
\* playback is paused or the synthesizer is not speaking, and a
\* progress-ratio tick that runs while playback is paused or the Audio is
\* not playing, leave currentWordIndex and currentSentenceIndex unchanged.
C21_NoAdvanceWhilePaused ==
  [][\A i \in 1..Len(timers) :
       (\/ FallbackTimer(i) /\ (isPaused \/ ~Speaking)
        \/ SmoothTimer(i) /\ (isPaused \/ audioRef = NoSession
                                       \/ sess[audioRef].audio # "playing"))
       => UNCHANGED <<currentWordIndex, currentSentenceIndex>>]_vars

\* the startup-delay tick of a browser session is due while the session is
\* paused and a word is highlighted
C21_Witness ==
  /\ isPaused /\ synth.paused
  /\ currentWordIndex >= 0
  /\ \E i \in 1..Len(timers) :
       IsNextDue(i) /\ timers[i].kind \in FallbackKinds

\* C22: index range: while a session speaks or its Audio plays,
\* currentWordIndex is -1 or an index into the session's word array; the
\* engine's start signal sets HighlightState to {0,0} when the text has a
\* word token and leaves it unchanged when the text has none.
C22_IndexRange ==
  /\ [](\A s \in SessionIds :
          ((synth.utt = s /\ synth.speaking) \/ sess[s].audio = "playing")
          => \/ currentWordIndex = -1
             \/ /\ 0 <= currentWordIndex
                /\ currentWordIndex < Len(TextWords[sess[s].text]))
  /\ [][\A s \in SessionIds :
          UtteranceStart(s)
          => IF Len(TextWords[sess[s].text]) > 0
               THEN currentWordIndex' = 0 /\ currentSentenceIndex' = 0
               ELSE UNCHANGED <<currentWordIndex, currentSentenceIndex>>]_vars

\* session s is Starting, Playing or Paused
SessionActive(s) ==
  \/ synth.utt = s
  \/ sess[s].audio \in {"chunking", "synthesizing", "loading", "playing", "paused"}

\* no session is active and the delayed reset of the last one is pending
DisplayHold ==
  /\ \A s \in SessionIds : ~SessionActive(s)
  /\ \E i \in 1..Len(timers) : timers[i].kind = "reset"

\* C23: natural end: the end signal of the utterance or of the Audio clears
\* isPlaying and isPaused, leaves no polling tick pending, keeps
\* HighlightState and schedules its reset 150 ms later; during the hold
\* HighlightState changes only when the reset runs, the reset sets it to
\* {-1,-1}, and while no session is started it stays {-1,-1}.
C23_NaturalEnd ==
  /\ [][\A s \in SessionIds :
          (UtteranceEnd(s) \/ AudioEnded(s))
          => /\ ~isPlaying' /\ ~isPaused'
             /\ UNCHANGED <<currentWordIndex, currentSentenceIndex>>
             /\ \A i \in 1..Len(timers') :
                  timers'[i].kind \notin {"fallbackTick", "resumeTick", "smoothTick"}
             /\ timers'[Len(timers')].kind = "reset"
             /\ timers'[Len(timers')].left = RESET_DELAY]_vars
  /\ [][(DisplayHold /\ DisplayHold')
        => \/ UNCHANGED <<currentWordIndex, currentSentenceIndex>>
           \/ \E i \in 1..Len(timers) : ResetTimer(i)]_vars
  /\ [][\A i \in 1..Len(timers) :
          ResetTimer(i) => currentWordIndex' = -1 /\ currentSentenceIndex' = -1]_vars
  /\ [][(/\ \A s \in SessionIds : ~SessionActive(s)
         /\ (\A s \in SessionIds : ~SessionActive(s))'
         /\ currentWordIndex = -1 /\ currentSentenceIndex = -1)
        => currentWordIndex' = -1 /\ currentSentenceIndex' = -1]_vars

\* C24: engine failure: when the utterance or the Audio of an active
\* session reports an error, an error message is set, isPlaying and
\* isPaused are cleared, no startup-delay, polling or resume tick stays
\* pending, and HighlightState is {-1,-1} or its reset is scheduled.
C24_EngineFailure ==
  [][\A s \in SessionIds :
       (SessionActive(s) /\ (UtteranceError(s) \/ AudioError(s)))
       => /\ error' \in {"Speech synthesis failed", "Audio playback failed"}
          /\ ~isPlaying' /\ ~isPaused'
          /\ \A i \in 1..Len(timers') :
               timers'[i].kind \notin FallbackKinds \cup ResumeKinds \cup {"smoothTick"}
          /\ \/ currentWordIndex' = -1 /\ currentSentenceIndex' = -1
             \/ \E i \in 1..Len(timers') : timers'[i].kind = "reset"]_vars

(***************************************************************************)
(* Claims about progress-ratio polling and boundary events.                *)
(***************************************************************************)
\* C25: progress-ratio polling: a tick that finds the Audio playing sets
\* currentWordIndex to floor(currentTime / duration * wordCount) when that
\* value is a valid index, and schedules no further tick once the value has
\* reached wordCount - 1.
C25_ProgressPolling ==
  [][\A i \in 1..Len(timers) :
       (/\ SmoothTimer(i)
        /\ audioRef # NoSession
        /\ sess[audioRef].audio = "playing")
       => LET nWords == Len(TextWords[timers[i].arg.text])
              expectedWordIndex ==
                ProgressWordIndex(sess[audioRef].position, nWords)
          IN /\ expectedWordIndex < nWords
                  => currentWordIndex' = expectedWordIndex
             /\ expectedWordIndex >= nWords - 1
                  => \A j \in 1..Len(timers') : timers'[j].kind # "smoothTick"]_vars

\* C26: clamping of excess boundary events: a word-boundary event that
\* arrives after the session has consumed all its word tokens changes
\* nothing, so it leaves currentWordIndex at wordCount - 1 exactly when, in
\* every state in which such an event can arrive, the session is playing
\* with currentWordIndex = wordCount - 1.
C26_ExcessBoundaryEvents ==
  \A s \in SessionIds :
    (/\ synth.utt = s /\ synth.speaking /\ ~synth.paused
     /\ synthEvents = <<>>
     /\ sess[s].boundaryWordIndex >= Len(TextWords[sess[s].text]))
    => /\ currentWordIndex = Len(TextWords[sess[s].text]) - 1
       /\ isPlaying /\ ~isPaused

\* C27: the display-hold reset does not leak into the next session: the
\* delayed reset of HighlightState scheduled when a session stops, ends or
\* fails never runs while a later session is playing.
C27_ResetDoesNotLeak ==
  [][\A i \in 1..Len(timers) :
       ResetTimer(i)
       => ~(isPlaying /\ \E s \in SessionIds : synth.utt = s /\ synth.speaking)]_vars

\* C28: word/sentence consistency: while a browser session plays with
\* currentWordIndex = i >= 0, currentSentenceIndex is
\* findSentenceIndex(sentences, words[i].start), also right after the start
\* signal has set HighlightState to {0,0}.
C28_WordSentenceConsistency ==
  \A s \in SessionIds :
    (/\ synth.utt = s /\ synth.speaking /\ isPlaying
     /\ currentWordIndex >= 0
     /\ currentWordIndex < Len(TextWords[sess[s].text]))
    => currentSentenceIndex =
         findSentenceIndex(TextSentences[sess[s].text],
                           TextWords[sess[s].text][currentWordIndex + 1].start)

=============================================================================
